---- MODULE Spec2Model ----
(***************************************************************************)
(* A model of the agent-access-control controllers: the AgentCard and the  *)
(* AgentPolicy reconciler, the builders of the downstream records, and the *)
(* platform around them (the API server's store, the work queues fed by    *)
(* the watches of SetupWithManager, and the owner-reference garbage        *)
(* collector).                                                             *)
(*                                                                         *)
(* One reconcile is one action.  The API calls it issues, in order, are    *)
(* kept in the history variable ops; what it returned is kept in last.     *)
(* A failing API call is an input of the action: the set F of fault points *)
(* that fail in this reconcile.                                            *)
(*                                                                         *)
(* Platform semantics: a write that leaves the stored object unchanged     *)
(* raises no watch event; a watch event of an owned record enqueues the    *)
(* controller owners of its old and of its new value; a reconcile that     *)
(* returns an error is requeued.                                           *)
(***************************************************************************)
EXTENDS Naturals, Sequences, FiniteSets, TLC

VARIABLES cards, policies, store, crds, cardQueue, policyQueue,
          ops, last, changes, faults, call, race

vars == <<cards, policies, store, crds, cardQueue, policyQueue,
          ops, last, changes, faults, call, race>>

-----------------------------------------------------------------------------
(* Bounds of the model. *)

\* Disturbances of a run: the external changes (a card or a policy edited or
\* deleted) and the API calls that fail for a reason other than the state of
\* the store, together.
MaxDisturbances == 1

-----------------------------------------------------------------------------
(* Names. *)

\* The cards in the order a List call returns them.
CardOrder == <<"c1", "c2">>
CardNames == {CardOrder[i] : i \in 1..Len(CardOrder)}
PolicyOrder == <<"p1", "p2">>
PolicyNames == {PolicyOrder[i] : i \in 1..Len(PolicyOrder)}
Namespace == "default"
GatewayName == "my-gateway"
GatewayNamespace == "gateway-ns"

agentCardFinalizer == "kagenti.com/agentcard-finalizer"
agentPolicyFinalizer == "kagenti.com/agentpolicy-finalizer"

labelManagedBy == "kagenti.com/managed-by"
labelAgentCard == "kagenti.com/agent-card"
managedByValue == "agent-access-control"

DefaultServicePort == 8080
DefaultRequestsPerMinute == 60
DNSPort == 53

\* The kinds of downstream records.
Kinds == {"HTTPRoute", "MCPServerRegistration", "AuthPolicy",
          "RateLimitPolicy", "ConfigMap", "NetworkPolicy"}

\* Kinds whose type is registered only when an optional layer is installed.
OptionalKinds == {"MCPServerRegistration", "AuthPolicy", "RateLimitPolicy"}

EmptyMap == [k \in {} |-> ""]

\* No function of the controllers is applied on its own.
NoCall == [fn |-> "", in |-> <<>>, out |-> <<>>]

\* No write request has been answered; no apply call is followed step by
\* step.
NoWrite == [by |-> "", verb |-> "", key |-> <<>>, sent |-> 0, read |-> 0,
            stored |-> 0, before |-> <<>>, res |-> ""]
NoRace == [version |-> <<>>, proc |-> <<>>, write |-> NoWrite]

-----------------------------------------------------------------------------
(* Records of the two primary kinds. *)

NoStatusCard == [ready |-> "", reason |-> "", generatedHTTPRoute |-> ""]

NoCard == [exists |-> FALSE, name |-> "", namespace |-> "", uid |-> 0,
           deleting |-> FALSE, finalizers |-> {}, labels |-> EmptyMap,
           protocols |-> <<>>, servicePort |-> 0, status |-> NoStatusCard]

NoStatusPolicy == [ready |-> "", reason |-> "", message |-> <<>>,
                   matchedAgentCards |-> 0, generatedResources |-> <<>>]

\* An optional section of a policy is a pointer: present or nil.
NoIngress == [present |-> FALSE, allowedAgents |-> <<>>]
NoRateLimit == [present |-> FALSE, requestsPerMinute |-> 0]
NoExternal == [present |-> FALSE, defaultMode |-> "", rules |-> <<>>]

NoPolicy == [exists |-> FALSE, name |-> "", namespace |-> "", uid |-> 0,
             deleting |-> FALSE, finalizers |-> {}, selector |-> EmptyMap,
             ingress |-> NoIngress, rateLimit |-> NoRateLimit,
             external |-> NoExternal, agents |-> <<>>,
             status |-> NoStatusPolicy]

\* A record of the downstream store that does not exist.
NoObj == [exists |-> FALSE, kind |-> "", name |-> "", namespace |-> "",
          labels |-> EmptyMap, owners |-> <<>>, spec |-> <<>>]

-----------------------------------------------------------------------------
(* The values the external collaborators give a card or a policy. *)

CardSpecs ==
    {[labels |-> [tier |-> "premium"], protocols |-> <<"a2a", "mcp">>,
      servicePort |-> 9090],
     [labels |-> [tier |-> "premium"], protocols |-> <<"a2a">>,
      servicePort |-> 0],
     [labels |-> [tier |-> "standard"], protocols |-> <<"a2a">>,
      servicePort |-> 0]}

SomeIngress == [present |-> TRUE, allowedAgents |-> <<"orchestrator">>]
SomeRateLimit == [present |-> TRUE, requestsPerMinute |-> 100]
SomeExternal ==
    [present |-> TRUE, defaultMode |-> "deny", rules |->
       <<[host |-> "api.example.com", mode |-> "vault",
          vaultPath |-> "secret/data/api-key", audience |-> "",
          scopes |-> <<>>, header |-> "Authorization",
          headerPrefix |-> "Bearer "]>>]

\* Every section; the sidecar section alone, for every card; the ingress
\* section alone.
FullPolicySpec ==
    [selector |-> [tier |-> "premium"], ingress |-> SomeIngress,
     rateLimit |-> SomeRateLimit, external |-> SomeExternal]
ExternalOnlyPolicySpec ==
    [selector |-> EmptyMap, ingress |-> NoIngress,
     rateLimit |-> NoRateLimit, external |-> SomeExternal]
IngressOnlyPolicySpec ==
    [selector |-> [tier |-> "premium"], ingress |-> SomeIngress,
     rateLimit |-> NoRateLimit, external |-> NoExternal]

PolicySpecs == {FullPolicySpec, ExternalOnlyPolicySpec, IngressOnlyPolicySpec}

NewCard(c, uid, s) ==
    [NoCard EXCEPT !.exists = TRUE, !.name = c, !.namespace = Namespace,
                   !.uid = uid, !.labels = s.labels,
                   !.protocols = s.protocols,
                   !.servicePort = s.servicePort]

NewPolicy(p, uid, s) ==
    [NoPolicy EXCEPT !.exists = TRUE, !.name = p, !.namespace = Namespace,
                     !.uid = uid, !.selector = s.selector,
                     !.ingress = s.ingress, !.rateLimit = s.rateLimit,
                     !.external = s.external,
                     !.agents = <<"weather-agent">>]

-----------------------------------------------------------------------------
(* Builders of the downstream records. *)

\* A variant of commonLabels without the label of the card.
commonLabelsManagedOnly(cardName) == (labelManagedBy :> managedByValue)

commonLabels(cardName) ==
    (labelManagedBy :> managedByValue) @@ (labelAgentCard :> cardName)

OwnerRef(kind, owner) ==
    [apiVersion |-> "kagenti.com/v1alpha1", kind |-> kind,
     name |-> owner.name, uid |-> owner.uid,
     controller |-> TRUE, blockOwnerDeletion |-> TRUE]

\* The object with its owner references replaced by the one reference.
setOwnerRef(obj, owner, kind) ==
    [obj EXCEPT !.owners = <<OwnerRef(kind, owner)>>]

setUnstructuredOwnerRef(obj, owner, kind) ==
    [obj EXCEPT !.owners = <<OwnerRef(kind, owner)>>]

\* A variant of RoutePort without the default.
RoutePortAsGiven(servicePort) == servicePort

RoutePort(servicePort) ==
    IF servicePort = 0 THEN DefaultServicePort ELSE servicePort

BuildHTTPRoute(card, gatewayName, gatewayNamespace) ==
    setOwnerRef(
        [exists |-> TRUE, kind |-> "HTTPRoute",
         name |-> "agent-" \o card.name, namespace |-> card.namespace,
         labels |-> commonLabels(card.name), owners |-> <<>>,
         spec |-> [parentRefs |-> <<[group |-> "gateway.networking.k8s.io",
                                     kind |-> "Gateway",
                                     namespace |-> gatewayNamespace,
                                     name |-> gatewayName]>>,
                   rules |-> <<[path |-> [type |-> "PathPrefix",
                                          value |-> "/agents/" \o card.name],
                                backend |-> card.name \o "-svc",
                                port |-> RoutePort(card.servicePort)]>>]],
        card, "AgentCard")

TargetRef(httpRouteName) ==
    [group |-> "gateway.networking.k8s.io", kind |-> "HTTPRoute",
     name |-> httpRouteName]

\* Position of the first "/" of a name, 0 when there is none.
RECURSIVE SlashAt(_, _)
SlashAt(name, i) ==
    IF i > Len(name) THEN 0
    ELSE IF SubSeq(name, i, i) = "/" THEN i
    ELSE SlashAt(name, i + 1)

\* Position of the last "/" of a name, 0 when there is none.
RECURSIVE LastSlashAt(_, _)
LastSlashAt(name, i) ==
    IF i = 0 THEN 0
    ELSE IF SubSeq(name, i, i) = "/" THEN i
    ELSE LastSlashAt(name, i - 1)

\* A variant of resolveServiceAccount that splits at the last "/".
resolveServiceAccountAtLast(name, policyNamespace) ==
    LET i == LastSlashAt(name, Len(name)) IN
    IF i > 0
    THEN "system:serviceaccount:" \o SubSeq(name, 1, i - 1) \o ":"
             \o SubSeq(name, i + 1, Len(name))
    ELSE "system:serviceaccount:" \o policyNamespace \o ":" \o name

resolveServiceAccount(name, policyNamespace) ==
    LET i == SlashAt(name, 1) IN
    IF i > 0
    THEN "system:serviceaccount:" \o SubSeq(name, 1, i - 1) \o ":"
             \o SubSeq(name, i + 1, Len(name))
    ELSE "system:serviceaccount:" \o policyNamespace \o ":" \o name

\* A variant of Predicates that lists the entries last first.
PredicatesReversed(policy) ==
    IF policy.ingress.present
    THEN [i \in 1..Len(policy.ingress.allowedAgents) |->
            [selector |-> "auth.identity.sub", operator |-> "eq",
             value |-> resolveServiceAccount(
                          policy.ingress.allowedAgents[
                              Len(policy.ingress.allowedAgents) + 1 - i],
                          policy.namespace)]]
    ELSE <<>>

Predicates(policy) ==
    IF policy.ingress.present
    THEN [i \in 1..Len(policy.ingress.allowedAgents) |->
            [selector |-> "auth.identity.sub", operator |-> "eq",
             value |-> resolveServiceAccount(policy.ingress.allowedAgents[i],
                                             policy.namespace)]]
    ELSE <<>>

\* A variant of BuildAuthPolicy that names the record after the policy as
\* well.
BuildAuthPolicyNamedByPolicy(policy, card, httpRouteName) ==
    setUnstructuredOwnerRef(
        [exists |-> TRUE, kind |-> "AuthPolicy",
         name |-> "ap-" \o policy.name \o "-" \o card.name,
         namespace |-> policy.namespace,
         labels |-> commonLabels(card.name), owners |-> <<>>,
         spec |-> [targetRef |-> TargetRef(httpRouteName),
                   issuerUrl |-> "https://issuer.example.com",
                   patterns |-> Predicates(policy)]],
        policy, "AgentPolicy")

BuildAuthPolicy(policy, card, httpRouteName) ==
    setUnstructuredOwnerRef(
        [exists |-> TRUE, kind |-> "AuthPolicy",
         name |-> "ap-" \o card.name, namespace |-> policy.namespace,
         labels |-> commonLabels(card.name), owners |-> <<>>,
         spec |-> [targetRef |-> TargetRef(httpRouteName),
                   issuerUrl |-> "https://issuer.example.com",
                   patterns |-> Predicates(policy)]],
        policy, "AgentPolicy")

\* A variant of RequestsPerMinute that ignores the rateLimit section.
RequestsPerMinuteFixed(policy) == DefaultRequestsPerMinute

\* A variant of RequestsPerMinute that replaces a zero value by the default,
\* as RoutePort does.
RequestsPerMinuteZeroDefaults(policy) ==
    IF policy.rateLimit.present /\ policy.rateLimit.requestsPerMinute # 0
    THEN policy.rateLimit.requestsPerMinute
    ELSE DefaultRequestsPerMinute

RequestsPerMinute(policy) ==
    IF policy.rateLimit.present THEN policy.rateLimit.requestsPerMinute
    ELSE DefaultRequestsPerMinute

BuildRateLimitPolicy(policy, card, httpRouteName) ==
    setUnstructuredOwnerRef(
        [exists |-> TRUE, kind |-> "RateLimitPolicy",
         name |-> "rlp-" \o card.name, namespace |-> policy.namespace,
         labels |-> commonLabels(card.name), owners |-> <<>>,
         spec |-> [targetRef |-> TargetRef(httpRouteName),
                   rates |-> <<[limit |-> RequestsPerMinute(policy),
                                window |-> "1m"]>>]],
        policy, "AgentPolicy")

\* The serialized form of one external rule: host and mode always, an
\* optional field only when it is not empty (omitempty).
OptionalRuleKeys == {"vaultPath", "audience", "scopes", "header",
                     "headerPrefix"}

MarshalRule(r) ==
    LET empty(k) == IF k = "scopes" THEN Len(r[k]) = 0 ELSE r[k] = ""
        keys == {"host", "mode"} \cup {k \in OptionalRuleKeys : ~empty(k)}
    IN  [k \in keys |-> r[k]]

SidecarDocument(policy, card) ==
    [gateway |-> [host |-> "agent-gateway." \o card.namespace
                               \o ".svc.cluster.local",
                  mode |-> "passthrough"],
     allowedAgents |-> policy.agents,
     external |->
        IF policy.external.present
        THEN [defaultMode |-> policy.external.defaultMode,
              rules |-> [i \in 1..Len(policy.external.rules) |->
                            MarshalRule(policy.external.rules[i])]]
        ELSE [defaultMode |-> "", rules |-> <<>>]]

\* A variant of BuildSidecarConfigMap that keeps the owner references of the
\* stored ConfigMap and adds its own.
BuildSidecarConfigMapKeepingOwners(policy, card) ==
    LET name == "sidecar-config-" \o card.name
        stored == IF <<"ConfigMap", name>> \in DOMAIN store
                  THEN store[<<"ConfigMap", name>>].owners ELSE <<>>
    IN  [exists |-> TRUE, kind |-> "ConfigMap", name |-> name,
         namespace |-> card.namespace,
         labels |-> commonLabels(card.name),
         owners |-> stored \o <<OwnerRef("AgentPolicy", policy)>>,
         spec |-> ("config.yaml" :> SidecarDocument(policy, card))]

BuildSidecarConfigMap(policy, card) ==
    setOwnerRef(
        [exists |-> TRUE, kind |-> "ConfigMap",
         name |-> "sidecar-config-" \o card.name,
         namespace |-> card.namespace,
         labels |-> commonLabels(card.name), owners |-> <<>>,
         spec |-> ("config.yaml" :> SidecarDocument(policy, card))],
        policy, "AgentPolicy")

BuildMCPServerRegistration(card, httpRouteName) ==
    setUnstructuredOwnerRef(
        [exists |-> TRUE, kind |-> "MCPServerRegistration",
         name |-> "mcp-" \o card.name, namespace |-> card.namespace,
         labels |-> commonLabels(card.name), owners |-> <<>>,
         spec |-> [targetRef |-> TargetRef(httpRouteName),
                   toolPrefix |-> card.name \o "_", path |-> "/mcp"]],
        card, "AgentCard")

\* A variant of BuildNetworkPolicy that adds an egress rule without peers
\* and ports when the policy's external default mode is not deny.
BuildNetworkPolicyByMode(policy, card) ==
    setOwnerRef(
        [exists |-> TRUE, kind |-> "NetworkPolicy",
         name |-> "egress-" \o card.name, namespace |-> card.namespace,
         labels |-> commonLabels(card.name), owners |-> <<>>,
         spec |-> [podSelector |-> (labelAgentCard :> card.name),
                   policyTypes |-> <<"Egress">>,
                   egress |-> <<[ports |-> <<[port |-> DNSPort,
                                               protocol |-> "UDP"],
                                              [port |-> DNSPort,
                                               protocol |-> "TCP"]>>,
                                 to |-> <<>>],
                                [ports |-> <<>>,
                                 to |-> <<[namespaceSelector |-> EmptyMap]>>]
                               >>
                               \o (IF policy.external.present
                                      /\ policy.external.defaultMode # "deny"
                                   THEN <<[ports |-> <<>>, to |-> <<>>]>>
                                   ELSE <<>>)]],
        policy, "AgentPolicy")

BuildNetworkPolicy(policy, card) ==
    setOwnerRef(
        [exists |-> TRUE, kind |-> "NetworkPolicy",
         name |-> "egress-" \o card.name, namespace |-> card.namespace,
         labels |-> commonLabels(card.name), owners |-> <<>>,
         spec |-> [podSelector |-> (labelAgentCard :> card.name),
                   policyTypes |-> <<"Egress">>,
                   egress |-> <<[ports |-> <<[port |-> DNSPort,
                                               protocol |-> "UDP"],
                                              [port |-> DNSPort,
                                               protocol |-> "TCP"]>>,
                                 to |-> <<>>],
                                [ports |-> <<>>,
                                 to |-> <<[namespaceSelector |-> EmptyMap]>>]
                               >>]],
        policy, "AgentPolicy")

containsProtocol(protocols, target) ==
    \E i \in 1..Len(protocols) : protocols[i] = target

\* The value of a key in a Go map: the empty string when the key is absent.
MapGet(m, k) == IF k \in DOMAIN m THEN m[k] ELSE ""

labelsMatchSelector(objectLabels, selectorLabels) ==
    \A key \in DOMAIN selectorLabels :
        MapGet(objectLabels, key) = selectorLabels[key]

\* client.MatchingLabels: the label selector of a List call.
MatchingLabels(objectLabels, selectorLabels) ==
    \A key \in DOMAIN selectorLabels :
        key \in DOMAIN objectLabels /\ objectLabels[key] = selectorLabels[key]

-----------------------------------------------------------------------------
(* The store of downstream records and the API calls of a reconcile. *)

Lookup(s, key) == IF key \in DOMAIN s THEN s[key] ELSE NoObj

Put(s, obj) ==
    LET key == <<obj.kind, obj.name>> IN
    [k \in DOMAIN s \cup {key} |-> IF k = key THEN obj ELSE s[k]]

Remove(s, key) == [k \in DOMAIN s \ {key} |-> s[k]]

\* One API call: res is "ok", "notfound", "nomatch" (the kind is not
\* registered) or "err" (any other failure).
Op(verb, kind, name, res) ==
    [verb |-> verb, kind |-> kind, name |-> name, res |-> res]

Log(st, op) == [st EXCEPT !.ops = Append(@, op)]

\* The reconcile returns an error / returns.
Fail(st) == [st EXCEPT !.done = TRUE, !.result = "err"]
Stop(st) == [st EXCEPT !.done = TRUE]

\* The stored primary record after an accepted Update: a record that carries
\* a deletion marker and no finalizer any more is removed by the platform.
Settle(obj, none) ==
    IF obj.deleting /\ obj.finalizers = {} THEN none ELSE obj

\* The value of Body at v, with v computed once, as the argument of a call is.
With(v, Body(_)) == CHOOSE r \in {Body(x) : x \in {v}} : TRUE

\* createOrUpdateUnstructured: Get, then Create or Update with the desired
\* value.  st.res is what the call returned.
createOrUpdateUnstructured(st, desired, fail) ==
    LET key == <<desired.kind, desired.name>>
        existing == Lookup(st.store, key)
        get(res) == Log(st, Op("get", desired.kind, desired.name, res))
        write(verb, res) == Op(verb, desired.kind, desired.name, res)
    IN
    IF desired.kind \in OptionalKinds /\ desired.kind \notin crds
    THEN [get("nomatch") EXCEPT !.res = "nomatch"]
    ELSE IF ~existing.exists
    THEN IF fail
         THEN [Log(get("notfound"), write("create", "err"))
                 EXCEPT !.res = "err"]
         ELSE [Log(get("notfound"), write("create", "ok"))
                 EXCEPT !.res = "ok", !.store = Put(@, desired)]
    ELSE IF fail
         THEN [Log(get("ok"), write("update", "err")) EXCEPT !.res = "err"]
         ELSE [Log(get("ok"), write("update", "ok"))
                 EXCEPT !.res = "ok", !.store = Put(@, desired)]

\* createOrUpdateUnstructured when another client removes the stored record
\* between the Get and the Update: the Update returns NotFound.
createOrUpdateUnstructuredGone(st, desired) ==
    LET key == <<desired.kind, desired.name>>
        get(res) == Log(st, Op("get", desired.kind, desired.name, res))
    IN
    IF ~Lookup(st.store, key).exists
         \/ (desired.kind \in OptionalKinds /\ desired.kind \notin crds)
    THEN createOrUpdateUnstructured(st, desired, FALSE)
    ELSE [Log(get("ok"), Op("update", desired.kind, desired.name, "notfound"))
            EXCEPT !.res = "notfound", !.store = Remove(@, key)]

\* A variant of createOrUpdateTyped whose Update appends the desired owner
\* references to the stored ones.
createOrUpdateTypedAppendsOwner(st, desired, failGet, failWrite) ==
    LET key == <<desired.kind, desired.name>>
        existing == Lookup(st.store, key)
        updated == [existing EXCEPT !.spec = desired.spec,
                                    !.labels = desired.labels,
                                    !.owners = @ \o desired.owners]
        get(res) == Log(st, Op("get", desired.kind, desired.name, res))
        write(verb, res) == Op(verb, desired.kind, desired.name, res)
    IN
    IF failGet
    THEN [get("err") EXCEPT !.res = "geterr"]
    ELSE IF ~existing.exists
    THEN IF failWrite
         THEN [Log(get("notfound"), write("create", "err"))
                 EXCEPT !.res = "createerr"]
         ELSE [Log(get("notfound"), write("create", "ok"))
                 EXCEPT !.res = "ok", !.store = Put(@, desired)]
    ELSE IF failWrite
         THEN [Log(get("ok"), write("update", "err"))
                 EXCEPT !.res = "updateerr"]
         ELSE [Log(get("ok"), write("update", "ok"))
                 EXCEPT !.res = "ok", !.store = Put(@, updated)]

\* createOrUpdateConfigMap and the HTTPRoute apply of the card reconciler:
\* Get, then Create of the desired value, or Update of the stored value with
\* its spec/data, labels and owner references replaced by the desired ones.
createOrUpdateTyped(st, desired, failGet, failWrite) ==
    LET key == <<desired.kind, desired.name>>
        existing == Lookup(st.store, key)
        updated == [existing EXCEPT !.spec = desired.spec,
                                    !.labels = desired.labels,
                                    !.owners = desired.owners]
        get(res) == Log(st, Op("get", desired.kind, desired.name, res))
        write(verb, res) == Op(verb, desired.kind, desired.name, res)
    IN
    IF failGet
    THEN [get("err") EXCEPT !.res = "geterr"]
    ELSE IF ~existing.exists
    THEN IF failWrite
         THEN [Log(get("notfound"), write("create", "err"))
                 EXCEPT !.res = "createerr"]
         ELSE [Log(get("notfound"), write("create", "ok"))
                 EXCEPT !.res = "ok", !.store = Put(@, desired)]
    ELSE IF failWrite
         THEN [Log(get("ok"), write("update", "err"))
                 EXCEPT !.res = "updateerr"]
         ELSE [Log(get("ok"), write("update", "ok"))
                 EXCEPT !.res = "ok", !.store = Put(@, updated)]

\* A variant of createOrUpdateConfigMap whose Update leaves the data and the
\* owner references of the stored record as they are.
createOrUpdateConfigMapKeepsStored(st, desired, failGet, failWrite) ==
    LET existing == Lookup(st.store, <<desired.kind, desired.name>>)
    IN  createOrUpdateTyped(st,
            IF existing.exists
            THEN [desired EXCEPT !.spec = existing.spec,
                                 !.owners = existing.owners]
            ELSE desired,
            failGet, failWrite)

createOrUpdateConfigMap(st, desired, failGet, failWrite) ==
    createOrUpdateTyped(st, desired, failGet, failWrite)

isCRDNotFound(res) == res \in {"nomatch", "notfound"}

\* A variant of isCRDNotFoundPolicy that recognises no error.
isCRDNotFoundPolicyNever(res) == FALSE

isCRDNotFoundPolicy(res) == res = "nomatch"

-----------------------------------------------------------------------------
(* The AgentCard reconciler. *)

CardFaultPoints == {"get", "finalizer", "routeGet", "routeWrite", "mcp",
                    "mcpGone", "status"}

\* The state of a reconcile when it starts: nothing fetched, nothing called.
StartReconcile(none) ==
    [obj |-> none, cards |-> cards, policies |-> policies, store |-> store,
     ops |-> <<>>, done |-> FALSE, result |-> "ok", res |-> "",
     fetched |-> none, matched |-> <<>>, generated |-> <<>>,
     errors |-> <<>>, fanout |-> FALSE]

\* A variant of CardFetch that returns the NotFound of the Get as an error.
CardFetchNotFoundFails(c, F, st) ==
    IF "get" \in F
    THEN Fail(Log(st, Op("get", "AgentCard", c, "err")))
    ELSE IF ~st.cards[c].exists
    THEN Fail(Log(st, Op("get", "AgentCard", c, "notfound")))
    ELSE [Log(st, Op("get", "AgentCard", c, "ok"))
            EXCEPT !.obj = st.cards[c], !.fetched = st.cards[c]]

\* r.Get of the primary record.
CardFetch(c, F, st) ==
    IF "get" \in F
    THEN Fail(Log(st, Op("get", "AgentCard", c, "err")))
    ELSE IF ~st.cards[c].exists
    THEN Stop(Log(st, Op("get", "AgentCard", c, "notfound")))
    ELSE [Log(st, Op("get", "AgentCard", c, "ok"))
            EXCEPT !.obj = st.cards[c], !.fetched = st.cards[c]]

\* r.Update of the card: metadata and spec are stored, the status is not
\* (it is a subresource).
CardUpdate(c, F, st, obj) ==
    IF "finalizer" \in F
    THEN Fail(Log(st, Op("update", "AgentCard", c, "err")))
    ELSE LET stored == Settle([obj EXCEPT !.status = st.cards[c].status],
                              NoCard)
         IN  [Log(st, Op("update", "AgentCard", c, "ok"))
                EXCEPT !.cards[c] = stored, !.obj = obj]

\* A variant of CardHandleDeletion that deletes the card's HTTPRoute itself
\* before it removes the finalizer.
CardHandleDeletionDeletesRoute(c, F, st) ==
    IF st.done \/ ~st.obj.deleting THEN st
    ELSE IF agentCardFinalizer \in st.obj.finalizers
    THEN LET route == BuildHTTPRoute(st.obj, GatewayName, GatewayNamespace)
             st1 == [Log(st, Op("delete", route.kind, route.name, "ok"))
                       EXCEPT !.store = Remove(@, <<route.kind, route.name>>)]
         IN  Stop(CardUpdate(c, F, st1,
                 [st.obj EXCEPT !.finalizers = @ \ {agentCardFinalizer}]))
    ELSE Stop(st)

CardHandleDeletion(c, F, st) ==
    IF st.done \/ ~st.obj.deleting THEN st
    ELSE IF agentCardFinalizer \in st.obj.finalizers
    THEN LET st1 == CardUpdate(c, F, st,
                       [st.obj EXCEPT !.finalizers = @ \ {agentCardFinalizer}])
         IN  Stop(st1)
    ELSE Stop(st)

CardAddFinalizer(c, F, st) ==
    IF st.done \/ agentCardFinalizer \in st.obj.finalizers THEN st
    ELSE CardUpdate(c, F, st,
            [st.obj EXCEPT !.finalizers = @ \cup {agentCardFinalizer}])

\* A variant of CardSetReadyCondition that makes the reconcile fail when the
\* status write fails.
CardSetReadyConditionFails(c, F, st, status, reason) ==
    LET obj == [st.obj EXCEPT !.status.ready = status,
                              !.status.reason = reason]
    IN  IF "status" \in F
        THEN Fail([Log(st, Op("updateStatus", "AgentCard", c, "err"))
                     EXCEPT !.obj = obj])
        ELSE [Log(st, Op("updateStatus", "AgentCard", c, "ok"))
                EXCEPT !.obj = obj, !.cards[c].status = obj.status]

\* setReadyCondition: set the condition in memory and persist the status;
\* a failed status write is logged and dropped.
CardSetReadyCondition(c, F, st, status, reason) ==
    LET obj == [st.obj EXCEPT !.status.ready = status,
                              !.status.reason = reason]
    IN  IF "status" \in F
        THEN [Log(st, Op("updateStatus", "AgentCard", c, "err"))
                EXCEPT !.obj = obj]
        ELSE [Log(st, Op("updateStatus", "AgentCard", c, "ok"))
                EXCEPT !.obj = obj, !.cards[c].status = obj.status]

\* A variant of CardApplyRoute that goes on after a failed HTTPRoute write.
CardApplyRouteGoesOn(c, F, st) ==
    IF st.done THEN st
    ELSE LET desired == BuildHTTPRoute(st.obj, GatewayName, GatewayNamespace)
             st1 == createOrUpdateTyped(st, desired, "routeGet" \in F,
                                        "routeWrite" \in F)
         IN  IF st1.res = "ok" THEN st1
             ELSE IF st1.res = "geterr" THEN Fail(st1)
             ELSE [st1 EXCEPT !.result = "err"]

CardApplyRoute(c, F, st) ==
    IF st.done THEN st
    ELSE LET desired == BuildHTTPRoute(st.obj, GatewayName, GatewayNamespace)
             st1 == createOrUpdateTyped(st, desired, "routeGet" \in F,
                                        "routeWrite" \in F)
         IN  IF st1.res = "ok" THEN st1
             ELSE IF st1.res = "geterr" THEN Fail(st1)
             ELSE IF st1.res = "createerr"
             THEN Fail(CardSetReadyCondition(c, F, st1, "False",
                                             "HTTPRouteCreateFailed"))
             ELSE Fail(CardSetReadyCondition(c, F, st1, "False",
                                             "HTTPRouteUpdateFailed"))

CardApplyMCP(c, F, st) ==
    IF st.done \/ ~containsProtocol(st.obj.protocols, "mcp") THEN st
    ELSE LET routeName ==
                 BuildHTTPRoute(st.obj, GatewayName, GatewayNamespace).name
             mcpReg == BuildMCPServerRegistration(st.obj, routeName)
             st1 == IF "mcpGone" \in F
                    THEN createOrUpdateUnstructuredGone(st, mcpReg)
                    ELSE createOrUpdateUnstructured(st, mcpReg, "mcp" \in F)
         IN  IF st1.res = "ok" \/ isCRDNotFound(st1.res) THEN st1
             ELSE Fail(CardSetReadyCondition(c, F, st1, "False",
                                             "MCPRegistrationFailed"))

CardUpdateStatus(c, F, st) ==
    IF st.done THEN st
    ELSE LET routeName ==
                 BuildHTTPRoute(st.obj, GatewayName, GatewayNamespace).name
             st1 == [st EXCEPT !.obj.status.generatedHTTPRoute = routeName]
         IN  Stop(CardSetReadyCondition(c, F, st1, "True", "Reconciled"))

\* AgentCardReconciler.Reconcile, from the fetch to the return.
\* Each step acts on the value the step before it produced.
CardReconcileRun(c, F) ==
    CHOOSE st \in
      {CardUpdateStatus(c, F, s5) : s5 \in
        {CardApplyMCP(c, F, s4) : s4 \in
          {CardApplyRoute(c, F, s3) : s3 \in
            {CardAddFinalizer(c, F, s2) : s2 \in
              {CardHandleDeletion(c, F, s1) : s1 \in
                {CardFetch(c, F, s0) : s0 \in
                  {StartReconcile(NoCard)}}}}}}} : TRUE

-----------------------------------------------------------------------------
(* The AgentPolicy reconciler. *)

PolicyFaultPoints ==
    {<<"get", "">>, <<"finalizer", "">>, <<"listCards", "">>,
     <<"status", "">>}
    \cup ({"listRoutes", "auth", "rlp", "cmGet", "cm"} \X CardNames)

PolicyFetch(p, F, st) ==
    IF <<"get", "">> \in F
    THEN Fail(Log(st, Op("get", "AgentPolicy", p, "err")))
    ELSE IF ~st.policies[p].exists
    THEN Stop(Log(st, Op("get", "AgentPolicy", p, "notfound")))
    ELSE [Log(st, Op("get", "AgentPolicy", p, "ok"))
            EXCEPT !.obj = st.policies[p], !.fetched = st.policies[p]]

PolicyUpdate(p, F, st, obj) ==
    IF <<"finalizer", "">> \in F
    THEN Fail(Log(st, Op("update", "AgentPolicy", p, "err")))
    ELSE LET stored == Settle([obj EXCEPT !.status = st.policies[p].status],
                              NoPolicy)
         IN  [Log(st, Op("update", "AgentPolicy", p, "ok"))
                EXCEPT !.policies[p] = stored, !.obj = obj]

\* A variant of PolicyHandleDeletion that goes on with the reconcile after it
\* has removed the finalizer.
PolicyHandleDeletionContinues(p, F, st) ==
    IF st.done \/ ~st.obj.deleting THEN st
    ELSE IF agentPolicyFinalizer \in st.obj.finalizers
    THEN PolicyUpdate(p, F, st,
            [st.obj EXCEPT !.finalizers = @ \ {agentPolicyFinalizer}])
    ELSE st

PolicyHandleDeletion(p, F, st) ==
    IF st.done \/ ~st.obj.deleting THEN st
    ELSE IF agentPolicyFinalizer \in st.obj.finalizers
    THEN LET st1 == PolicyUpdate(p, F, st,
                     [st.obj EXCEPT !.finalizers = @ \ {agentPolicyFinalizer}])
         IN  Stop(st1)
    ELSE Stop(st)

\* A variant of PolicyAddFinalizer that goes on with the reconcile when the
\* Update that persists the finalizer has failed.
PolicyAddFinalizerIgnoresFailure(p, F, st) ==
    IF st.done \/ agentPolicyFinalizer \in st.obj.finalizers THEN st
    ELSE [PolicyUpdate(p, F, st,
             [st.obj EXCEPT !.finalizers = @ \cup {agentPolicyFinalizer}])
            EXCEPT !.done = FALSE, !.result = "ok"]

PolicyAddFinalizer(p, F, st) ==
    IF st.done \/ agentPolicyFinalizer \in st.obj.finalizers THEN st
    ELSE PolicyUpdate(p, F, st,
            [st.obj EXCEPT !.finalizers = @ \cup {agentPolicyFinalizer}])

PolicySetReadyCondition(p, F, st, status, reason, message) ==
    LET obj == [st.obj EXCEPT !.status.ready = status,
                              !.status.reason = reason,
                              !.status.message = message]
    IN  IF <<"status", "">> \in F
        THEN [Log(st, Op("updateStatus", "AgentPolicy", p, "err"))
                EXCEPT !.obj = obj]
        ELSE [Log(st, Op("updateStatus", "AgentPolicy", p, "ok"))
                EXCEPT !.obj = obj, !.policies[p].status = obj.status]

\* A variant of ListCards that lists every card of the policy's namespace.
ListCardsOfNamespace(st) ==
    SelectSeq(CardOrder,
        LAMBDA c : /\ st.cards[c].exists
                   /\ st.cards[c].namespace = st.obj.namespace)

\* The names of the cards of the policy's namespace that the List call with
\* the policy's matchLabels returns.
ListCards(st) ==
    SelectSeq(CardOrder,
        LAMBDA c : /\ st.cards[c].exists
                   /\ st.cards[c].namespace = st.obj.namespace
                   /\ MatchingLabels(st.cards[c].labels, st.obj.selector))

PolicyListCards(p, F, st) ==
    IF st.done THEN st
    ELSE IF <<"listCards", "">> \in F
    THEN Fail(PolicySetReadyCondition(p, F,
                 Log(st, Op("list", "AgentCard", "", "err")),
                 "False", "ListCardsFailed", <<<<"listCards", "">>>>))
    ELSE [Log(st, Op("list", "AgentCard", "", "ok"))
            EXCEPT !.matched = ListCards(st), !.fanout = TRUE]

\* The HTTPRoutes of the card's namespace labelled with the card's name.
RoutesOf(st, card) ==
    {k \in DOMAIN st.store :
        /\ k[1] = "HTTPRoute"
        /\ st.store[k].namespace = card.namespace
        /\ MatchingLabels(st.store[k].labels, labelAgentCard :> card.name)}

AddError(st, what, c) == [st EXCEPT !.errors = Append(@, <<what, c>>)]

\* A variant of AddGenerated that appends the entry twice.
AddGeneratedTwice(st, kind, name) ==
    [st EXCEPT !.generated = @ \o <<[kind |-> kind, name |-> name],
                                    [kind |-> kind, name |-> name]>>]

AddGenerated(st, kind, name) ==
    [st EXCEPT !.generated = Append(@, [kind |-> kind, name |-> name])]

\* A variant of PolicyApplyRateLimit that applies the RateLimitPolicy
\* whether or not the policy has a rateLimit section.
PolicyApplyRateLimitAlways(F, st, c, httpRouteName) ==
    With(BuildRateLimitPolicy(st.obj, st.cards[c], httpRouteName),
      LAMBDA rlp :
        With(createOrUpdateUnstructured(st, rlp, <<"rlp", c>> \in F),
          LAMBDA st1 :
            IF st1.res = "ok"
            THEN AddGenerated(st1, "RateLimitPolicy", rlp.name)
            ELSE IF isCRDNotFoundPolicy(st1.res) THEN st1
            ELSE AddError(st1, "rlp", c)))

\* The RateLimitPolicy part of one pass of the first loop.
PolicyApplyRateLimit(F, st, c, httpRouteName) ==
    IF ~st.obj.rateLimit.present THEN st
    ELSE With(BuildRateLimitPolicy(st.obj, st.cards[c], httpRouteName),
      LAMBDA rlp :
        With(createOrUpdateUnstructured(st, rlp, <<"rlp", c>> \in F),
          LAMBDA st1 :
            IF st1.res = "ok"
            THEN AddGenerated(st1, "RateLimitPolicy", rlp.name)
            ELSE IF isCRDNotFoundPolicy(st1.res) THEN st1
            ELSE AddError(st1, "rlp", c)))

\* A variant of PolicyApplyAuth that withdraws the AuthPolicy of the card
\* when the policy has no ingress section.
PolicyApplyAuthWithdraws(F, st, c, httpRouteName) ==
    IF ~st.obj.ingress.present
    THEN PolicyApplyRateLimit(F,
             [st EXCEPT !.store = Remove(@, <<"AuthPolicy", "ap-" \o c>>)],
             c, httpRouteName)
    ELSE With(BuildAuthPolicy(st.obj, st.cards[c], httpRouteName),
      LAMBDA authPolicy :
        With(createOrUpdateUnstructured(st, authPolicy, <<"auth", c>> \in F),
          LAMBDA st1 :
            IF st1.res = "ok"
            THEN With(AddGenerated(st1, "AuthPolicy", authPolicy.name),
                      LAMBDA st2 :
                        PolicyApplyRateLimit(F, st2, c, httpRouteName))
            ELSE IF isCRDNotFoundPolicy(st1.res)
            THEN PolicyApplyRateLimit(F, st1, c, httpRouteName)
            ELSE AddError(st1, "auth", c)))

\* A variant of PolicyApplyAuth that goes on to the RateLimitPolicy after
\* any failure of the AuthPolicy.
PolicyApplyAuthGoesOn(F, st, c, httpRouteName) ==
    IF ~st.obj.ingress.present
    THEN PolicyApplyRateLimit(F, st, c, httpRouteName)
    ELSE With(BuildAuthPolicy(st.obj, st.cards[c], httpRouteName),
      LAMBDA authPolicy :
        With(createOrUpdateUnstructured(st, authPolicy, <<"auth", c>> \in F),
          LAMBDA st1 :
            IF st1.res = "ok"
            THEN With(AddGenerated(st1, "AuthPolicy", authPolicy.name),
                      LAMBDA st2 :
                        PolicyApplyRateLimit(F, st2, c, httpRouteName))
            ELSE IF isCRDNotFoundPolicy(st1.res)
            THEN PolicyApplyRateLimit(F, st1, c, httpRouteName)
            ELSE With(AddError(st1, "auth", c), LAMBDA st2 :
                   PolicyApplyRateLimit(F, st2, c, httpRouteName))))

\* The AuthPolicy part of one pass of the first loop, and on to the
\* RateLimitPolicy unless the AuthPolicy failed (continue).
PolicyApplyAuth(F, st, c, httpRouteName) ==
    IF ~st.obj.ingress.present
    THEN PolicyApplyRateLimit(F, st, c, httpRouteName)
    ELSE With(BuildAuthPolicy(st.obj, st.cards[c], httpRouteName),
      LAMBDA authPolicy :
        With(createOrUpdateUnstructured(st, authPolicy, <<"auth", c>> \in F),
          LAMBDA st1 :
            IF st1.res = "ok"
            THEN With(AddGenerated(st1, "AuthPolicy", authPolicy.name),
                      LAMBDA st2 :
                        PolicyApplyRateLimit(F, st2, c, httpRouteName))
            ELSE IF isCRDNotFoundPolicy(st1.res)
            THEN PolicyApplyRateLimit(F, st1, c, httpRouteName)
            ELSE AddError(st1, "auth", c)))

\* A variant of PolicyApplyCard that records an error for a card without an
\* HTTPRoute.
PolicyApplyCardNeedsRoute(F, st, c) ==
    IF <<"listRoutes", c>> \in F
    THEN AddError(Log(st, Op("list", "HTTPRoute", c, "err")),
                  "listRoutes", c)
    ELSE With(RoutesOf(st, st.cards[c]), LAMBDA routes :
           With(Log(st, Op("list", "HTTPRoute", c, "ok")), LAMBDA st0 :
             IF routes = {} THEN AddError(st0, "noRoute", c)
             ELSE PolicyApplyAuth(F, st0, c,
                                  (CHOOSE k \in routes : TRUE)[2])))

\* One pass of the first loop: the route lookup of one matched card, then
\* its AuthPolicy and RateLimitPolicy.
\* A variant of PolicyApplyCard that creates the HTTPRoute of a card that
\* has none.
PolicyApplyCardCreatesRoute(F, st, c) ==
    IF <<"listRoutes", c>> \in F
    THEN AddError(Log(st, Op("list", "HTTPRoute", c, "err")),
                  "listRoutes", c)
    ELSE With(RoutesOf(st, st.cards[c]), LAMBDA routes :
           With(Log(st, Op("list", "HTTPRoute", c, "ok")), LAMBDA st0 :
             IF routes = {}
             THEN With(BuildHTTPRoute(st.cards[c], GatewayName,
                                      GatewayNamespace), LAMBDA route :
                    [Log(st0, Op("create", "HTTPRoute", route.name, "ok"))
                       EXCEPT !.store = Put(@, route)])
             ELSE PolicyApplyAuth(F, st0, c,
                                  (CHOOSE k \in routes : TRUE)[2])))

PolicyApplyCard(F, st, c) ==
    IF <<"listRoutes", c>> \in F
    THEN AddError(Log(st, Op("list", "HTTPRoute", c, "err")),
                  "listRoutes", c)
    ELSE With(RoutesOf(st, st.cards[c]), LAMBDA routes :
           With(Log(st, Op("list", "HTTPRoute", c, "ok")), LAMBDA st0 :
             IF routes = {} THEN st0
             ELSE PolicyApplyAuth(F, st0, c,
                                  (CHOOSE k \in routes : TRUE)[2])))

\* A variant of PolicyCardLoop that leaves the loop at the first card with an
\* error.
RECURSIVE PolicyCardLoopBreaks(_, _, _)
PolicyCardLoopBreaks(F, st, i) ==
    IF i > Len(st.matched) THEN st
    ELSE CHOOSE r \in {IF Len(s.errors) > Len(st.errors) THEN s
                       ELSE PolicyCardLoopBreaks(F, s, i + 1) :
                         s \in {PolicyApplyCard(F, st, st.matched[i])}} : TRUE

\* The first loop over the matched cards, from the i-th on.
RECURSIVE PolicyCardLoop(_, _, _)
PolicyCardLoop(F, st, i) ==
    IF i > Len(st.matched) THEN st
    ELSE CHOOSE r \in {PolicyCardLoop(F, s, i + 1) :
                         s \in {PolicyApplyCard(F, st, st.matched[i])}} : TRUE

\* A variant of PolicyApplyConfigMap that passes over a card for which the
\* first loop has collected an error.
PolicyApplyConfigMapUnlessError(F, st, c) ==
    IF \E i \in 1..Len(st.errors) : st.errors[i][2] = c THEN st
    ELSE
    With(BuildSidecarConfigMap(st.obj, st.cards[c]), LAMBDA cm :
      With(createOrUpdateConfigMap(st, cm, <<"cmGet", c>> \in F,
                                   <<"cm", c>> \in F), LAMBDA st1 :
        IF st1.res = "ok" THEN AddGenerated(st1, "ConfigMap", cm.name)
        ELSE AddError(st1, "cm", c)))

\* One pass of the second loop: the sidecar ConfigMap of one matched card.
PolicyApplyConfigMap(F, st, c) ==
    With(BuildSidecarConfigMap(st.obj, st.cards[c]), LAMBDA cm :
      With(createOrUpdateConfigMap(st, cm, <<"cmGet", c>> \in F,
                                   <<"cm", c>> \in F), LAMBDA st1 :
        IF st1.res = "ok" THEN AddGenerated(st1, "ConfigMap", cm.name)
        ELSE AddError(st1, "cm", c)))

RECURSIVE PolicyConfigMapLoop(_, _, _)
PolicyConfigMapLoop(F, st, i) ==
    IF i > Len(st.matched) THEN st
    ELSE CHOOSE r \in {PolicyConfigMapLoop(F, s, i + 1) :
                         s \in {PolicyApplyConfigMap(F, st, st.matched[i])}} :
                TRUE

PolicyFanOut(p, F, st) ==
    IF st.done THEN st
    ELSE CHOOSE r \in {IF st1.obj.external.present
                        THEN PolicyConfigMapLoop(F, st1, 1)
                        ELSE st1 : st1 \in {PolicyCardLoop(F, st, 1)}} : TRUE

\* A variant of PolicyUpdateStatus that returns success whatever the fan-out
\* has collected.
PolicyUpdateStatusReturnsSuccess(p, F, st) ==
    IF st.done THEN st
    ELSE LET st1 == [st EXCEPT
                       !.obj.status.matchedAgentCards = Len(st.matched),
                       !.obj.status.generatedResources = st.generated]
         IN  IF Len(st.errors) > 0
             THEN Stop(PolicySetReadyCondition(p, F, st1, "False",
                                               "ReconcileErrors", st.errors))
             ELSE Stop(PolicySetReadyCondition(p, F, st1, "True",
                                               "Reconciled", <<>>))

PolicyUpdateStatus(p, F, st) ==
    IF st.done THEN st
    ELSE LET st1 == [st EXCEPT
                       !.obj.status.matchedAgentCards = Len(st.matched),
                       !.obj.status.generatedResources = st.generated]
         IN  IF Len(st.errors) > 0
             THEN Fail(PolicySetReadyCondition(p, F, st1, "False",
                                               "ReconcileErrors", st.errors))
             ELSE Stop(PolicySetReadyCondition(p, F, st1, "True",
                                               "Reconciled", <<>>))

\* AgentPolicyReconciler.Reconcile, from the fetch to the return.
\* Each step acts on the value the step before it produced.
PolicyReconcileRun(p, F) ==
    CHOOSE st \in
      {PolicyUpdateStatus(p, F, s5) : s5 \in
        {PolicyFanOut(p, F, s4) : s4 \in
          {PolicyListCards(p, F, s3) : s3 \in
            {PolicyAddFinalizer(p, F, s2) : s2 \in
              {PolicyHandleDeletion(p, F, s1) : s1 \in
                {PolicyFetch(p, F, s0) : s0 \in
                  {StartReconcile(NoPolicy)}}}}}}} : TRUE

-----------------------------------------------------------------------------
(* Watches: which keys a change of the stored records enqueues. *)

\* The names of the controller owners of a kind among the owner references.
ControllerOwners(obj, kind) ==
    {obj.owners[i].name : i \in {j \in 1..Len(obj.owners) :
        obj.owners[j].kind = kind /\ obj.owners[j].controller}}

\* Owns(kind): a change of a record of the kind enqueues the controller
\* owners of its old and of its new value.
OwnerRequests(preS, postS, kind, ownerKind) ==
    UNION {ControllerOwners(Lookup(preS, k), ownerKind)
             \cup ControllerOwners(Lookup(postS, k), ownerKind) :
           k \in {q \in DOMAIN preS \cup DOMAIN postS :
                    q[1] = kind /\ Lookup(preS, q) # Lookup(postS, q)}}

\* A variant of findPoliciesForAgentCard that lists the policies of every
\* namespace.
findPoliciesOfEveryNamespace(card, pols, listFails) ==
    IF listFails THEN {}
    ELSE {p \in PolicyNames :
            /\ pols[p].exists
            /\ labelsMatchSelector(card.labels, pols[p].selector)}

\* findPoliciesForAgentCard: the policies of the card's namespace whose
\* selector matches the card's labels; no request at all when the List call
\* of the policies fails (the error is logged).
findPoliciesForAgentCard(card, pols, listFails) ==
    IF listFails THEN {}
    ELSE {p \in PolicyNames :
            /\ pols[p].exists
            /\ pols[p].namespace = card.namespace
            /\ labelsMatchSelector(card.labels, pols[p].selector)}

\* Watches(AgentCard, map function): the requests of a change of a card, for
\* its old and its new value.  The List call of the map function reads the
\* manager's cache; in a run of the controllers it does not fail.
CardWatchRequests(preC, postC, pols) ==
    UNION {(IF preC[c].exists
            THEN findPoliciesForAgentCard(preC[c], pols, FALSE) ELSE {})
           \cup (IF postC[c].exists
                 THEN findPoliciesForAgentCard(postC[c], pols, FALSE)
                 ELSE {}) :
           c \in {x \in CardNames : preC[x] # postC[x]}}

\* The AgentCard controller: For(AgentCard), Owns(HTTPRoute).
CardRequests(preC, postC, preS, postS) ==
    {c \in CardNames : preC[c] # postC[c]}
    \cup (OwnerRequests(preS, postS, "HTTPRoute", "AgentCard")
            \cap CardNames)

\* The AgentPolicy controller: For(AgentPolicy), Owns(ConfigMap),
\* Watches(AgentCard).
PolicyRequests(preP, postP, preC, postC, preS, postS) ==
    {p \in PolicyNames : preP[p] # postP[p]}
    \cup (OwnerRequests(preS, postS, "ConfigMap", "AgentPolicy")
            \cap PolicyNames)
    \cup CardWatchRequests(preC, postC, postP)

\* The platform stores the new records and delivers the change events.
Commit(newCards, newPolicies, newStore, doneCards, donePolicies) ==
    /\ cards' = newCards
    /\ policies' = newPolicies
    /\ store' = newStore
    /\ cardQueue' = (cardQueue \ doneCards)
                      \cup CardRequests(cards, newCards, store, newStore)
    /\ policyQueue' = (policyQueue \ donePolicies)
                      \cup PolicyRequests(policies, newPolicies, cards,
                                          newCards, store, newStore)

-----------------------------------------------------------------------------
(* Actions. *)

\* The sets of fault points that may fail in one reconcile.
RECURSIVE SetsUpTo(_, _)
SetsUpTo(points, n) ==
    IF n = 0 THEN {{}}
    ELSE LET S == SetsUpTo(points, n - 1)
         IN  S \cup {F \cup {x} : F \in S, x \in points}

FaultSets(points) == SetsUpTo(points, MaxDisturbances - (changes + faults))

\* The fault points of a reconcile of card c that name a call it can make:
\* the MCPServerRegistration is applied for a card with the mcp protocol.
CardFaultPointsOf(c) ==
    {x \in CardFaultPoints :
        x \in {"mcp", "mcpGone"}
            => containsProtocol(cards[c].protocols, "mcp")}

\* The fault points of a policy reconcile that name a call it can make: the
\* calls for a card are made for a stored card.
PolicyFaultPointsNow ==
    {x \in PolicyFaultPoints : x[2] = "" \/ cards[x[2]].exists}

\* The API calls of a reconcile that failed because of a fault: an error, or
\* the NotFound of an Update.
Failed(st) ==
    {i \in 1..Len(st.ops) :
        \/ st.ops[i].res = "err"
        \/ st.ops[i].verb = "update" /\ st.ops[i].res = "notfound"}

\* The records that another client removed between the Get and the Update
\* of an apply of the reconcile.
RemovedByOthers(st) ==
    {<<st.ops[i].kind, st.ops[i].name>> :
        i \in {j \in 1..Len(st.ops) : /\ st.ops[j].verb = "update"
                                       /\ st.ops[j].res = "notfound"}}

\* What the last action was; for a reconcile, what it fetched, listed,
\* generated and returned, and the status it held in memory at its end.
\* repeat: the action before it was a successful reconcile of the same key.
\* removed: the downstream records the action removed from the store (a
\* record that another client removed during the reconcile is not counted).
\* wrote: the action changed a stored record.
LastOf(act, key, st) ==
    [act |-> act, key |-> key, result |-> st.result,
     repeat |-> last.act = act /\ last.key = key /\ last.result = "ok",
     fetched |-> st.fetched, status |-> st.obj.status,
     fanout |-> st.fanout, matched |-> st.matched,
     generated |-> st.generated, errors |-> st.errors,
     removed |-> {store[k] : k \in (DOMAIN store \ DOMAIN st.store)
                                     \ RemovedByOthers(st)},
     wrote |-> <<st.cards, st.policies, st.store>>
                 # <<cards, policies, store>>]

NoLast(act, key) ==
    [act |-> act, key |-> key, result |-> "", repeat |-> FALSE,
     fetched |-> NoCard, status |-> NoStatusCard, fanout |-> FALSE,
     matched |-> <<>>, generated |-> <<>>, errors |-> <<>>,
     removed |-> {}, wrote |-> FALSE]

\* A reconcile that returns an error is requeued.
Requeue(st, key) == IF st.result = "err" THEN {key} ELSE {}

CardReconcile(c) ==
    /\ c \in cardQueue
    /\ \E F \in FaultSets(CardFaultPointsOf(c)) :
         \E st \in {CardReconcileRun(c, F)} :
         /\ Cardinality(Failed(st)) = Cardinality(F)
         /\ faults' = faults + Cardinality(F)
         /\ cards' = st.cards
         /\ store' = st.store
         /\ cardQueue' = (cardQueue \ {c}) \cup Requeue(st, c)
                           \cup CardRequests(cards, st.cards, store, st.store)
         /\ policyQueue' = policyQueue
                           \cup PolicyRequests(policies, policies, cards,
                                               st.cards, store, st.store)
         /\ ops' = st.ops
         /\ last' = LastOf("card", c, st)
    /\ UNCHANGED <<policies, crds, changes, call, race>>

PolicyReconcile(p) ==
    /\ p \in policyQueue
    /\ \E F \in FaultSets(PolicyFaultPointsNow) :
         \E st \in {PolicyReconcileRun(p, F)} :
         /\ Cardinality(Failed(st)) = Cardinality(F)
         /\ faults' = faults + Cardinality(F)
         /\ policies' = st.policies
         /\ store' = st.store
         /\ cardQueue' = cardQueue
                           \cup CardRequests(cards, cards, store, st.store)
         /\ policyQueue' = (policyQueue \ {p}) \cup Requeue(st, p)
                           \cup PolicyRequests(policies, st.policies, cards,
                                               cards, store, st.store)
         /\ ops' = st.ops
         /\ last' = LastOf("policy", p, st)
    /\ UNCHANGED <<cards, crds, changes, call, race>>

\* An external collaborator edits or deletes a card or a policy.
External(newCards, newPolicies, key) ==
    /\ changes + faults < MaxDisturbances
    /\ changes' = changes + 1
    /\ Commit(newCards, newPolicies, store, {}, {})
    /\ ops' = <<>>
    /\ last' = NoLast("external", key)
    /\ UNCHANGED <<crds, faults, call, race>>

EditCard(c) ==
    /\ cards[c].exists /\ ~cards[c].deleting
    /\ \E s \in CardSpecs :
         /\ <<s.labels, s.protocols, s.servicePort>>
              # <<cards[c].labels, cards[c].protocols, cards[c].servicePort>>
         /\ External([cards EXCEPT ![c].labels = s.labels,
                                   ![c].protocols = s.protocols,
                                   ![c].servicePort = s.servicePort],
                     policies, c)

DeleteCard(c) ==
    /\ cards[c].exists /\ ~cards[c].deleting
    /\ External([cards EXCEPT ![c] =
                    Settle([cards[c] EXCEPT !.deleting = TRUE], NoCard)],
                policies, c)

EditPolicy(p) ==
    /\ policies[p].exists /\ ~policies[p].deleting
    /\ \E s \in PolicySpecs :
         /\ <<s.selector, s.ingress, s.rateLimit, s.external>>
              # <<policies[p].selector, policies[p].ingress,
                  policies[p].rateLimit, policies[p].external>>
         /\ External(cards,
                     [policies EXCEPT ![p].selector = s.selector,
                                      ![p].ingress = s.ingress,
                                      ![p].rateLimit = s.rateLimit,
                                      ![p].external = s.external], p)

DeletePolicy(p) ==
    /\ policies[p].exists /\ ~policies[p].deleting
    /\ External(cards,
                [policies EXCEPT ![p] =
                    Settle([policies[p] EXCEPT !.deleting = TRUE], NoPolicy)],
                p)

\* The owner of a reference is stored (it counts until it is removed).
OwnerExists(ref) ==
    \/ /\ ref.kind = "AgentCard"
       /\ \E c \in CardNames : /\ cards[c].exists
                               /\ cards[c].name = ref.name
                               /\ cards[c].uid = ref.uid
    \/ /\ ref.kind = "AgentPolicy"
       /\ \E p \in PolicyNames : /\ policies[p].exists
                                 /\ policies[p].name = ref.name
                                 /\ policies[p].uid = ref.uid

\* The stored records that hold the owner references of the record of key k.
Dependents(k) == {q \in DOMAIN store : store[q].owners = store[k].owners}

\* The platform's cascade: the records none of whose owners is stored any
\* more are removed, the dependents of one owner together.
GarbageCollect(k) ==
    /\ k \in DOMAIN store
    /\ store[k].owners # <<>>
    /\ \A i \in 1..Len(store[k].owners) : ~OwnerExists(store[k].owners[i])
    /\ Commit(cards, policies,
              [q \in DOMAIN store \ Dependents(k) |-> store[q]], {}, {})
    /\ ops' = <<>>
    /\ last' = [NoLast("gc", store[k].owners[1].name)
                  EXCEPT !.removed = {store[q] : q \in Dependents(k)}]
    /\ UNCHANGED <<crds, changes, faults, call, race>>

-----------------------------------------------------------------------------
(* The specification. *)

\* The uid of a record that is stored when the controllers start.
PrimaryOrder == CardOrder \o PolicyOrder
InitUid(name) == CHOOSE i \in 1..Len(PrimaryOrder) : PrimaryOrder[i] = name

\* The controllers start on a cluster that holds the cards and policies the
\* external collaborators have created (at most three of them), and no
\* downstream record; every stored card and policy is enqueued.  The optional
\* kinds are registered or not.
InitCards ==
    {f \in [CardNames -> {NoCard} \cup
              {NewCard(c, InitUid(c), s) : c \in CardNames, s \in CardSpecs}] :
       /\ f["c1"] = NewCard("c1", InitUid("c1"),
                       [labels |-> [tier |-> "premium"],
                        protocols |-> <<"a2a", "mcp">>, servicePort |-> 9090])
       /\ f["c2"] \in {NoCard,
                       NewCard("c2", InitUid("c2"),
                           [labels |-> [tier |-> "premium"],
                            protocols |-> <<"a2a">>, servicePort |-> 0])}}

InitPolicies ==
    {f \in [PolicyNames -> {NoPolicy} \cup
              {NewPolicy(p, InitUid(p), s) :
                 p \in PolicyNames, s \in PolicySpecs}] :
       /\ f["p1"] = NewPolicy("p1", InitUid("p1"), FullPolicySpec)
       /\ f["p2"] \in {NoPolicy,
                       NewPolicy("p2", InitUid("p2"), ExternalOnlyPolicySpec)}}

Init ==
    /\ cards \in InitCards
    /\ policies \in InitPolicies
    /\ ~(cards["c2"].exists /\ policies["p2"].exists)
    /\ store = [k \in {} |-> NoObj]
    /\ crds \in {{}, OptionalKinds}
    /\ crds = {} => ~cards["c2"].exists /\ ~policies["p2"].exists
    /\ cardQueue = {c \in CardNames : cards[c].exists}
    /\ policyQueue = {p \in PolicyNames : policies[p].exists}
    /\ ops = <<>>
    /\ last = NoLast("init", "")
    /\ changes = 0
    /\ faults = 0
    /\ call = NoCall
    /\ race = NoRace

Next ==
    \/ \E c \in CardNames : CardReconcile(c)
    \/ \E p \in PolicyNames : PolicyReconcile(p)
    \/ \E c \in CardNames : EditCard(c)
    \/ \E c \in CardNames : DeleteCard(c)
    \/ \E p \in PolicyNames : EditPolicy(p)
    \/ \E p \in PolicyNames : DeletePolicy(p)
    \/ \E k \in DOMAIN store : GarbageCollect(k)

Spec == Init /\ [][Next]_vars

\* Every enqueued key is eventually reconciled (the scheduler delivers at
\* least once), and the cascade eventually removes an orphaned record.
Fairness ==
    /\ \A c \in CardNames : WF_vars(CardReconcile(c))
    /\ \A p \in PolicyNames : WF_vars(PolicyReconcile(p))
    /\ WF_vars(\E k \in DOMAIN store : GarbageCollect(k))

FairSpec == Init /\ [][Next]_vars /\ Fairness

-----------------------------------------------------------------------------
(* The controllers after the reconcile of card c1 that created its         *)
(* HTTPRoute, when an earlier reconcile of the card had failed at the      *)
(* route and policy p1 had passed over the card in between.  The route's   *)
(* creation has requeued the card; the status write of the reconcile was   *)
(* rejected (the status is the earlier one) or accepted (p1 is requeued).  *)

RetryCard ==
    NewCard("c1", InitUid("c1"),
            [labels |-> [tier |-> "premium"],
             protocols |-> <<"a2a", "mcp">>, servicePort |-> 9090])

RetryPolicy ==
    [NewPolicy("p1", InitUid("p1"), FullPolicySpec)
       EXCEPT !.finalizers = {agentPolicyFinalizer},
              !.status = [ready |-> "True", reason |-> "Reconciled",
                          message |-> <<>>, matchedAgentCards |-> 1,
                          generatedResources |->
                              <<[kind |-> "ConfigMap",
                                 name |-> "sidecar-config-c1"]>>]]

RetryStatuses ==
    {NoStatusCard,
     [ready |-> "False", reason |-> "HTTPRouteCreateFailed",
      generatedHTTPRoute |-> ""],
     [ready |-> "True", reason |-> "Reconciled",
      generatedHTTPRoute |-> "agent-c1"]}

RetryStore ==
    Put(Put(Put([k \in {} |-> NoObj],
                BuildHTTPRoute(RetryCard, GatewayName, GatewayNamespace)),
            BuildMCPServerRegistration(RetryCard, "agent-c1")),
        BuildSidecarConfigMap(RetryPolicy, RetryCard))

RetryInit ==
    /\ \E s \in RetryStatuses :
         /\ cards = [c \in CardNames |->
                       IF c = "c1"
                       THEN [RetryCard EXCEPT
                               !.finalizers = {agentCardFinalizer},
                               !.status = s]
                       ELSE NoCard]
         /\ policyQueue = IF s.ready = "True" THEN {"p1"} ELSE {}
    /\ policies = [p \in PolicyNames |->
                     IF p = "p1" THEN RetryPolicy ELSE NoPolicy]
    /\ store = RetryStore
    /\ crds = OptionalKinds
    /\ cardQueue = {"c1"}
    /\ ops = <<>>
    /\ last = NoLast("init", "")
    /\ changes = 0
    /\ faults = 0
    /\ call = NoCall
    /\ race = NoRace

RetrySpec == RetryInit /\ [][Next]_vars /\ Fairness

-----------------------------------------------------------------------------
(* The functions of the controllers, applied on their own: call holds the  *)
(* function, its arguments and, once it has returned, its result.          *)

OtherNamespace == "other"
Namespaces == {Namespace, OtherNamespace}

\* Label maps: each key is absent or holds a value, which may be empty.
LabelKeys == {"tier", "team"}
LabelValues == {"", "premium", "standard"}
LabelMaps == UNION {[K -> LabelValues] : K \in SUBSET LabelKeys}

\* The selectors of the policies the index is applied to.
Selectors == {EmptyMap, [tier |-> "premium"], [tier |-> ""],
              [tier |-> "premium", team |-> "standard"]}

\* The card of a change event, of either namespace.
EventCards ==
    {[NewCard("c1", InitUid("c1"), s) EXCEPT !.namespace = ns,
                                             !.labels = l] :
       s \in CardSpecs, ns \in Namespaces, l \in LabelMaps}

\* The policies the cache holds when the index is applied.
CachedPolicies ==
    {f \in [PolicyNames -> {NoPolicy} \cup
              {[NewPolicy(p, InitUid(p), FullPolicySpec)
                  EXCEPT !.namespace = ns, !.selector = sel] :
                 p \in PolicyNames, ns \in Namespaces, sel \in Selectors}] :
       /\ f["p1"].exists /\ f["p1"].name = "p1"
       /\ f["p2"].exists => f["p2"].name = "p2"}

\* The entries of ingress.allowedAgents: a name, or namespace/name.
AgentEntries == {"orchestrator", "team-a/planner", "a/b/c", "/x", "x/", ""}

\* The sections of the policies the construction functions are applied to.
EmptyIngress == [present |-> TRUE, allowedAgents |-> <<>>]
TwoAgentsIngress ==
    [present |-> TRUE, allowedAgents |-> <<"team-a/planner", "orchestrator">>]
ZeroRateLimit == [present |-> TRUE, requestsPerMinute |-> 0]
AllowExternal == [present |-> TRUE, defaultMode |-> "allow", rules |-> <<>>]

BuildSpecs ==
    {FullPolicySpec, ExternalOnlyPolicySpec, IngressOnlyPolicySpec,
     [FullPolicySpec EXCEPT !.ingress = EmptyIngress],
     [FullPolicySpec EXCEPT !.ingress = TwoAgentsIngress,
                            !.rateLimit = ZeroRateLimit],
     [FullPolicySpec EXCEPT !.external = AllowExternal]}

\* Policies and cards of the two namespaces.
BuildPolicies ==
    {NewPolicy(p, InitUid(p), s) : p \in PolicyNames, s \in BuildSpecs}
    \cup {[NewPolicy("p1", InitUid("p1"), s)
             EXCEPT !.namespace = OtherNamespace] : s \in BuildSpecs}

BuildCards ==
    {NewCard(c, InitUid(c), s) :
       c \in CardNames, s \in {x \in CardSpecs : x.labels.tier = "premium"}}
    \cup {[NewCard("c1", InitUid("c1"), s)
             EXCEPT !.namespace = OtherNamespace] :
            s \in {x \in CardSpecs : x.servicePort = 9090}}

\* The construction functions of a card alone, and of a policy and a card.
CardBuilders == {"BuildHTTPRoute", "BuildMCPServerRegistration"}
PolicyBuilders == {"BuildAuthPolicy", "BuildRateLimitPolicy",
                   "BuildSidecarConfigMap", "BuildNetworkPolicy"}
Builders == CardBuilders \cup PolicyBuilders

\* The arguments of one application of a construction function; the route
\* name is the name of the card's HTTPRoute, as the reconcilers pass it.
BuildArgs(policy, card) ==
    [policy |-> policy, card |-> card,
     httpRouteName |-> BuildHTTPRoute(card, GatewayName,
                                      GatewayNamespace).name]

\* A construction function is applied twice: to the same arguments, to
\* another card, or (a function of a policy) to another policy.
BuildCalls ==
    {[fn |-> fn, in |-> <<BuildArgs(NoPolicy, c), BuildArgs(NoPolicy, d)>>,
      out |-> <<>>] :
       fn \in CardBuilders, c \in BuildCards, d \in BuildCards}
    \cup {[fn |-> fn, in |-> <<BuildArgs(p, c), BuildArgs(p, d)>>,
           out |-> <<>>] :
            fn \in PolicyBuilders, p \in BuildPolicies,
            c \in BuildCards, d \in BuildCards}
    \cup {[fn |-> fn, in |-> <<BuildArgs(p, c), BuildArgs(q, c)>>,
           out |-> <<>>] :
            fn \in PolicyBuilders, p \in BuildPolicies,
            q \in BuildPolicies, c \in BuildCards}

Calls ==
    {[fn |-> "labelsMatchSelector",
      in |-> [objectLabels |-> o, selectorLabels |-> s], out |-> <<>>] :
       o \in LabelMaps, s \in LabelMaps}
    \cup {[fn |-> "findPoliciesForAgentCard",
           in |-> [card |-> c, listFails |-> b], out |-> <<>>] :
            c \in EventCards, b \in BOOLEAN}
    \cup {[fn |-> "resolveServiceAccount",
           in |-> [name |-> n, policyNamespace |-> ns], out |-> <<>>] :
            n \in AgentEntries, ns \in Namespaces}
    \cup BuildCalls

\* The desired value a construction function returns for the arguments a.
Synthesize(fn, a) ==
    CASE fn = "BuildHTTPRoute" ->
            BuildHTTPRoute(a.card, GatewayName, GatewayNamespace)
      [] fn = "BuildMCPServerRegistration" ->
            BuildMCPServerRegistration(a.card, a.httpRouteName)
      [] fn = "BuildAuthPolicy" ->
            BuildAuthPolicy(a.policy, a.card, a.httpRouteName)
      [] fn = "BuildRateLimitPolicy" ->
            BuildRateLimitPolicy(a.policy, a.card, a.httpRouteName)
      [] fn = "BuildSidecarConfigMap" ->
            BuildSidecarConfigMap(a.policy, a.card)
      [] fn = "BuildNetworkPolicy" ->
            BuildNetworkPolicy(a.policy, a.card)

Return(v) ==
    /\ call' = [call EXCEPT !.out = <<v>>]
    /\ UNCHANGED <<cards, policies, store, crds, cardQueue, policyQueue,
                   ops, last, changes, faults, race>>

CallLabelsMatchSelector ==
    /\ call.fn = "labelsMatchSelector" /\ call.out = <<>>
    /\ Return(labelsMatchSelector(call.in.objectLabels,
                                  call.in.selectorLabels))

CallFindPoliciesForAgentCard ==
    /\ call.fn = "findPoliciesForAgentCard" /\ call.out = <<>>
    /\ Return(findPoliciesForAgentCard(call.in.card, policies,
                                       call.in.listFails))

CallResolveServiceAccount ==
    /\ call.fn = "resolveServiceAccount" /\ call.out = <<>>
    /\ Return(resolveServiceAccount(call.in.name, call.in.policyNamespace))

\* A construction function is applied to its next arguments.
CallBuild(fn) ==
    /\ call.fn = fn
    /\ Len(call.out) < Len(call.in)
    /\ call' = [call EXCEPT
                  !.out = Append(@, Synthesize(fn, call.in[Len(@) + 1]))]
    /\ UNCHANGED <<cards, policies, store, crds, cardQueue, policyQueue,
                   ops, last, changes, faults, race>>

\* The value a construction function has returned is stored, as the apply
\* call of the reconcile stores it.
CallStore ==
    /\ call.fn \in Builders
    /\ Len(call.out) = 1
    /\ Lookup(store, <<call.out[1].kind, call.out[1].name>>) # call.out[1]
    /\ store' = Put(store, call.out[1])
    /\ UNCHANGED <<cards, policies, crds, cardQueue, policyQueue,
                   ops, last, changes, faults, call, race>>

CallInit ==
    /\ call \in Calls
    /\ cards = [c \in CardNames |-> NoCard]
    /\ policies \in CachedPolicies
    /\ call.fn # "findPoliciesForAgentCard"
         => policies = [policies EXCEPT !["p2"] = NoPolicy,
                                        !["p1"].namespace = Namespace,
                                        !["p1"].selector = EmptyMap]
    /\ store = [k \in {} |-> NoObj]
    /\ crds = {}
    /\ cardQueue = {}
    /\ policyQueue = {}
    /\ ops = <<>>
    /\ last = NoLast("init", "")
    /\ changes = 0
    /\ faults = 0
    /\ race = NoRace

CallNext ==
    \/ CallLabelsMatchSelector
    \/ CallFindPoliciesForAgentCard
    \/ CallResolveServiceAccount
    \/ \E fn \in Builders : CallBuild(fn)
    \/ CallStore

CallSpec == CallInit /\ [][CallNext]_vars

-----------------------------------------------------------------------------
(* The apply calls of two policy reconciles that run in parallel, one API  *)
(* call at a time.  race.version is the version token of each stored       *)
(* record, race.proc the position of each reconcile in its apply call, and *)
(* race.write the last write request the API server has answered.          *)

\* The apply calls one reconcile makes.
MaxApplies == 4

\* The kinds a policy reconcile applies for a card, in the order of its
\* apply calls.
ApplyOrder == <<"AuthPolicy", "ConfigMap">>

\* The card whose records the reconciles apply, and its HTTPRoute.
RaceCard == NewCard("c1", InitUid("c1"),
                [labels |-> [tier |-> "premium"], protocols |-> <<"a2a">>,
                 servicePort |-> 0])
RaceRoute == BuildHTTPRoute(RaceCard, GatewayName, GatewayNamespace)

\* The desired value of the n-th apply call of the reconcile of policy p.
Desired(p, n) ==
    IF ApplyOrder[((n - 1) % Len(ApplyOrder)) + 1] = "AuthPolicy"
    THEN BuildAuthPolicy(policies[p], RaceCard, RaceRoute.name)
    ELSE BuildSidecarConfigMap(policies[p], RaceCard)

Idle(n) == [pc |-> "idle", calls |-> n, desired |-> NoObj,
            existing |-> NoObj, resourceVersion |-> 0]

\* r.Get of an apply call: the stored value and its version token, or
\* NotFound.
ApplyGet(p) ==
    /\ race.proc[p].pc = "idle"
    /\ race.proc[p].calls < MaxApplies
    /\ LET desired == Desired(p, race.proc[p].calls + 1)
           key == <<desired.kind, desired.name>>
       IN  race' = [race EXCEPT
                      !.proc[p] =
                         [pc |-> "got", calls |-> @.calls + 1,
                          desired |-> desired,
                          existing |-> Lookup(store, key),
                          resourceVersion |->
                             IF key \in DOMAIN store
                             THEN race.version[key] ELSE 0]]
    /\ UNCHANGED <<cards, policies, store, crds, cardQueue, policyQueue,
                   ops, last, changes, faults, call>>

\* The API server answers a write request: it stores the value under a new
\* version token, or rejects it.
Answer(p, verb, obj, sent, accepted, res) ==
    LET key == <<obj.kind, obj.name>> IN
    /\ store' = IF accepted THEN Put(store, obj) ELSE store
    /\ race' = [race EXCEPT
                  !.version = IF accepted
                              THEN [k \in DOMAIN @ \cup {key} |->
                                      IF k = key
                                      THEN (IF key \in DOMAIN @
                                            THEN @[key] ELSE 0) + 1
                                      ELSE @[k]]
                              ELSE @,
                  !.proc[p] = Idle(@.calls),
                  !.write = [by |-> p, verb |-> verb, key |-> key,
                             sent |-> sent,
                             read |-> race.proc[p].resourceVersion,
                             stored |-> IF key \in DOMAIN store
                                        THEN race.version[key] ELSE 0,
                             before |-> Lookup(store, key),
                             res |-> res]]
    /\ UNCHANGED <<cards, policies, crds, cardQueue, policyQueue,
                   ops, last, changes, faults, call>>

\* r.Create after a NotFound: AlreadyExists when the record has been created
\* since the Get.
ApplyCreate(p) ==
    /\ race.proc[p].pc = "got"
    /\ ~race.proc[p].existing.exists
    /\ LET desired == race.proc[p].desired
           key == <<desired.kind, desired.name>>
       IN  Answer(p, "create", desired, 0, key \notin DOMAIN store,
                  IF key \notin DOMAIN store THEN "ok" ELSE "exists")

\* A variant of UpdateObject whose request carries no version token of its
\* own, so that the server takes the stored one.
UpdateObjectUnversioned(existing, readVersion, desired, storedVersion) ==
    [obj |-> desired, resourceVersion |-> storedVersion]

\* The object an Update request carries.  createOrUpdateUnstructured sends
\* the desired value with the resource version of the value Get returned;
\* createOrUpdateConfigMap sends the value Get returned, with its data,
\* labels and owner references replaced.
UpdateObject(existing, readVersion, desired, storedVersion) ==
    IF desired.kind = "ConfigMap"
    THEN [obj |-> [existing EXCEPT !.spec = desired.spec,
                                   !.labels = desired.labels,
                                   !.owners = desired.owners],
          resourceVersion |-> readVersion]
    ELSE [obj |-> desired, resourceVersion |-> readVersion]

\* r.Update: Conflict when the version token of the request is not the
\* stored one.
ApplyUpdate(p) ==
    /\ race.proc[p].pc = "got"
    /\ race.proc[p].existing.exists
    /\ LET desired == race.proc[p].desired
           key == <<desired.kind, desired.name>>
           request == UpdateObject(race.proc[p].existing,
                                   race.proc[p].resourceVersion, desired,
                                   race.version[key])
           fresh == request.resourceVersion = race.version[key]
       IN  Answer(p, "update", request.obj, request.resourceVersion, fresh,
                  IF fresh THEN "ok" ELSE "conflict")

ApplyInit ==
    /\ cards = [c \in CardNames |-> IF c = "c1" THEN RaceCard ELSE NoCard]
    /\ policies = [p \in PolicyNames |->
                     NewPolicy(p, InitUid(p), FullPolicySpec)]
    /\ store = Put([k \in {} |-> NoObj], RaceRoute)
    /\ crds = OptionalKinds
    /\ cardQueue = {}
    /\ policyQueue = {}
    /\ ops = <<>>
    /\ last = NoLast("init", "")
    /\ changes = 0
    /\ faults = 0
    /\ call = NoCall
    /\ race = [version |-> [k \in DOMAIN store |-> 1],
               proc |-> [p \in PolicyNames |-> Idle(0)],
               write |-> NoWrite]

ApplyNext ==
    \/ \E p \in PolicyNames : ApplyGet(p)
    \/ \E p \in PolicyNames : ApplyCreate(p)
    \/ \E p \in PolicyNames : ApplyUpdate(p)

ApplySpec == ApplyInit /\ [][ApplyNext]_vars

-----------------------------------------------------------------------------
(* Properties. *)

IsReconcile == last.act \in {"card", "policy"}

\* The stored primary record of the last reconcile, and its finalizer.
LastStored ==
    IF last.act = "card" THEN cards[last.key] ELSE policies[last.key]
LastFinalizer ==
    IF last.act = "card" THEN agentCardFinalizer ELSE agentPolicyFinalizer
LastKind == IF last.act = "card" THEN "AgentCard" ELSE "AgentPolicy"
LastQueue == IF last.act = "card" THEN cardQueue ELSE policyQueue

\* The calls of the last reconcile on downstream records: all of them, and
\* the Create and Update calls.
DownstreamCalls == {i \in 1..Len(ops) : ops[i].kind \in Kinds}
DownstreamWrites ==
    {i \in DownstreamCalls : ops[i].verb \in {"create", "update", "delete"}}
StatusWrites == {i \in 1..Len(ops) : ops[i].verb = "updateStatus"}

\* C1: a reconcile that directly follows a successful reconcile of the same
\* key, with no change in between, issues no Create and no Update on a
\* downstream record.
C1_SecondApplyIsNoOp == last.repeat => DownstreamWrites = {}

Quiescent == cardQueue = {} /\ policyQueue = {}

\* C2: once the external changes have stopped, the system reaches a state in
\* which no reconcile is pending, and stays there.
C2_Quiescence == <>[]Quiescent

\* A Create or Update of the record of that kind and name succeeded in the
\* last reconcile.
Wrote(kind, name) ==
    \E i \in DownstreamWrites :
        ops[i].kind = kind /\ ops[i].name = name /\ ops[i].res = "ok"

\* C3: no reconcile issues a Delete on a downstream record; a downstream
\* record leaves the store only through the cascade, when none of its owners
\* is stored any more.
C3_NoExplicitDelete ==
    /\ \A i \in 1..Len(ops) : ops[i].verb # "delete"
    /\ \A o \in last.removed :
         /\ last.act = "gc"
         /\ \A i \in 1..Len(o.owners) : ~OwnerExists(o.owners[i])

\* The cascade has removed the HTTPRoute of the deleted card c1.
C3_Witness ==
    /\ last.act = "gc"
    /\ \E o \in last.removed : o.kind = "HTTPRoute" /\ o.name = "agent-c1"
    /\ ~cards["c1"].exists

OwnerKind(kind) ==
    IF kind \in {"HTTPRoute", "MCPServerRegistration"}
    THEN "AgentCard" ELSE "AgentPolicy"

\* C4: every stored downstream record carries exactly one owner reference, a
\* controlling one: to an AgentCard for an HTTPRoute or MCPServerRegistration,
\* to an AgentPolicy for the other kinds (the NetworkPolicy is only ever
\* built, so it is checked as built).
C4_SingleOwner ==
    /\ \A k \in DOMAIN store :
         /\ Len(store[k].owners) = 1
         /\ store[k].owners[1].kind = OwnerKind(k[1])
         /\ store[k].owners[1].controller
    /\ \A p \in PolicyNames, c \in CardNames :
         policies[p].exists /\ cards[c].exists =>
           BuildNetworkPolicy(policies[p], cards[c]).owners
             = <<OwnerRef("AgentPolicy", policies[p])>>

\* Policy p2 has updated the ConfigMap of card c1, which it now owns.
C4_Witness ==
    /\ last.act = "policy" /\ last.key = "p2"
    /\ \E i \in DownstreamWrites :
         /\ ops[i] = Op("update", "ConfigMap", "sidecar-config-c1", "ok")
    /\ store[<<"ConfigMap", "sidecar-config-c1">>].owners[1].name = "p2"

\* The last reconcile fetched a record with no deletion marker and without
\* the engine's finalizer.
FetchedWithoutFinalizer ==
    /\ IsReconcile
    /\ last.fetched.exists
    /\ ~last.fetched.deleting
    /\ LastFinalizer \notin last.fetched.finalizers

\* C5: a reconcile that fetches a record without deletion marker and without
\* the finalizer updates the primary record with the finalizer as its second
\* call, before any call on a downstream record; when that Update fails the
\* reconcile returns the failure and has made no other call.
C5_FinalizerFirst ==
    FetchedWithoutFinalizer =>
      /\ Len(ops) >= 2
      /\ ops[2].verb = "update" /\ ops[2].kind = LastKind
      /\ ops[2].name = last.key
      /\ \A i \in DownstreamCalls \cup StatusWrites : i > 2
      /\ ops[2].res = "ok" => LastFinalizer \in LastStored.finalizers
      /\ ops[2].res # "ok" =>
           /\ Len(ops) = 2
           /\ last.result = "err"
           /\ ~last.wrote
           /\ LastFinalizer \notin LastStored.finalizers

\* The Update that persists the finalizer of a policy has failed.
C5_Witness ==
    /\ FetchedWithoutFinalizer
    /\ last.act = "policy"
    /\ ops[2].res = "err"

\* C6: a reconcile that fetches a record with a deletion marker removes the
\* finalizer and returns: no call on a downstream record, no status write,
\* and the finalizer is not on the stored record afterwards unless the Update
\* failed.  A reconcile removes the finalizer only from a record that carries
\* a deletion marker.
C6_DeletionStops ==
    IsReconcile /\ last.fetched.exists =>
      /\ last.fetched.deleting =>
           /\ DownstreamCalls = {}
           /\ StatusWrites = {}
           /\ Len(ops) <= 2
           /\ LastStored.finalizers \subseteq last.fetched.finalizers
           /\ last.result = "ok" => LastFinalizer \notin LastStored.finalizers
      /\ (/\ LastFinalizer \in last.fetched.finalizers
          /\ LastFinalizer \notin LastStored.finalizers)
           => last.fetched.deleting

\* The reconcile of a card with a deletion marker has removed the finalizer,
\* and the card is gone.
C6_Witness ==
    /\ last.act = "card"
    /\ last.fetched.exists /\ last.fetched.deleting
    /\ agentCardFinalizer \in last.fetched.finalizers
    /\ ops[Len(ops)] = Op("update", "AgentCard", last.key, "ok")
    /\ ~cards[last.key].exists

\* C7: a reconcile whose Get of the primary record returns NotFound returns
\* success, is not requeued and has made no other call; one whose Get fails
\* otherwise returns the failure and has made no other call.
C7_FetchOutcomes ==
    IsReconcile =>
      /\ ops[1].verb = "get" /\ ops[1].kind = LastKind
      /\ ops[1].name = last.key
      /\ ops[1].res = "notfound" =>
           /\ Len(ops) = 1
           /\ last.result = "ok"
           /\ ~last.wrote
           /\ last.key \notin LastQueue
      /\ ops[1].res = "err" =>
           /\ Len(ops) = 1
           /\ last.result = "err"
           /\ ~last.wrote

\* A card that is no longer stored has been reconciled.
C7_Witness ==
    /\ last.act = "card"
    /\ ops = <<Op("get", "AgentCard", last.key, "notfound")>>
    /\ last.result = "ok"

\* The last action was a policy reconcile that reached the fan-out.
FanOut == last.act = "policy" /\ last.fanout

LastPolicy == policies[last.key]
Matched == {last.matched[i] : i \in 1..Len(last.matched)}
Generated == {last.generated[i] : i \in 1..Len(last.generated)}
Errors == {last.errors[i] : i \in 1..Len(last.errors)}

\* The names of the cards on which the fan-out collected an error.
ErrorCards == {e[2] : e \in Errors}

\* The name of the HTTPRoute the fan-out finds for a card, "" when none.
RouteNameOf(c) ==
    LET routes == {k \in DOMAIN store :
                     /\ k[1] = "HTTPRoute"
                     /\ store[k].namespace = cards[c].namespace
                     /\ MapGet(store[k].labels, labelAgentCard) = c}
    IN  IF routes = {} THEN "" ELSE (CHOOSE k \in routes : TRUE)[2]

\* The kinds of the traffic layer that are not registered.
Unregistered == {"AuthPolicy", "RateLimitPolicy"} \ crds

\* C8: when the AuthPolicy or RateLimitPolicy kind is not registered, the
\* fan-out swallows the failure of its apply: nothing of the kind is written,
\* listed in generatedResources or collected as an error; the
\* RateLimitPolicy is still tried after the AuthPolicy, the ConfigMap of
\* every matched card is still generated, and without another error the
\* reconcile sets Ready=True and returns success.
C8_SchemaUnavailable ==
    FanOut /\ Unregistered # {} =>
      /\ \A i \in 1..Len(ops) :
           ops[i].kind \in Unregistered =>
             ops[i].verb = "get" /\ ops[i].res = "nomatch"
      /\ \A g \in Generated : g.kind \notin Unregistered
      /\ \A e \in Errors :
           /\ "AuthPolicy" \in Unregistered => e[1] # "auth"
           /\ "RateLimitPolicy" \in Unregistered => e[1] # "rlp"
      /\ \A c \in Matched \ ErrorCards :
           /\ (/\ RouteNameOf(c) # ""
               /\ LastPolicy.ingress.present /\ LastPolicy.rateLimit.present)
                => \E i \in 1..Len(ops) :
                     ops[i].kind = "RateLimitPolicy"
                       /\ ops[i].name = "rlp-" \o c
           /\ LastPolicy.external.present =>
                /\ Wrote("ConfigMap", "sidecar-config-" \o c)
                /\ [kind |-> "ConfigMap", name |-> "sidecar-config-" \o c]
                     \in Generated
      /\ Errors = {} =>
           /\ last.result = "ok"
           /\ last.status.ready = "True"

\* With no optional kind registered, a policy reconcile has skipped the
\* AuthPolicy of a card, generated its ConfigMap and returned success.
C8_Witness ==
    /\ FanOut /\ crds = {}
    /\ \E i \in 1..Len(ops) :
         ops[i] = Op("get", "AuthPolicy", "ap-c1", "nomatch")
    /\ [kind |-> "ConfigMap", name |-> "sidecar-config-c1"] \in Generated
    /\ last.result = "ok"
    /\ last.status.ready = "True"
    /\ LastPolicy.status.ready = "True"

\* C9: an error on one matched card does not keep the fan-out from the other
\* cards: every matched card without an error of its own has got each record
\* the policy asks for, with the desired value.
C9_OtherCardsProcessed ==
    FanOut =>
      \A c \in Matched \ ErrorCards :
        LET route == RouteNameOf(c)
            ap == BuildAuthPolicy(LastPolicy, cards[c], route)
            rlp == BuildRateLimitPolicy(LastPolicy, cards[c], route)
            cm == BuildSidecarConfigMap(LastPolicy, cards[c])
        IN
        /\ (/\ route # "" /\ LastPolicy.ingress.present
            /\ "AuthPolicy" \in crds)
             => /\ Wrote("AuthPolicy", ap.name)
                /\ Lookup(store, <<"AuthPolicy", ap.name>>) = ap
        /\ (/\ route # "" /\ LastPolicy.rateLimit.present
            /\ "RateLimitPolicy" \in crds)
             => /\ Wrote("RateLimitPolicy", rlp.name)
                /\ Lookup(store, <<"RateLimitPolicy", rlp.name>>) = rlp
        /\ LastPolicy.external.present
             => /\ Wrote("ConfigMap", cm.name)
                /\ Lookup(store, <<"ConfigMap", cm.name>>) = cm

\* The AuthPolicy of card c1 has failed, and card c2 has got its AuthPolicy,
\* RateLimitPolicy and ConfigMap.
C9_Witness ==
    /\ FanOut
    /\ last.matched = <<"c1", "c2">>
    /\ last.errors = <<<<"auth", "c1">>>>
    /\ Wrote("AuthPolicy", "ap-c2")
    /\ Wrote("RateLimitPolicy", "rlp-c2")
    /\ Wrote("ConfigMap", "sidecar-config-c2")

\* The calls of the fan-out that failed.
FanOutFailures == {i \in DownstreamCalls : ops[i].res = "err"}

\* C10: a policy reconcile that reaches the fan-out returns failure, with
\* Ready=False, reason ReconcileErrors and a message that holds every error,
\* exactly when a call of the fan-out failed; otherwise it sets Ready=True and
\* returns success.  The status is stored unless the status write fails.
C10_FailureIffError ==
    FanOut =>
      /\ Len(last.errors) = Cardinality(FanOutFailures)
      /\ last.result = "err" <=> FanOutFailures # {}
      /\ FanOutFailures # {} =>
           /\ last.status.ready = "False"
           /\ last.status.reason = "ReconcileErrors"
           /\ last.status.message = last.errors
      /\ FanOutFailures = {} =>
           /\ last.status.ready = "True"
           /\ last.status.reason = "Reconciled"
      /\ ops[Len(ops)].verb = "updateStatus"
      /\ ops[Len(ops)].res = "ok" => LastPolicy.status = last.status

\* A policy reconcile has returned failure and stored Ready=False with the
\* error of the one call that failed.
C10_Witness ==
    /\ FanOut
    /\ last.result = "err"
    /\ Len(last.errors) = 1
    /\ LastPolicy.status.ready = "False"
    /\ LastPolicy.status.reason = "ReconcileErrors"
    /\ LastPolicy.status.message = last.errors

\* The last action was the reconcile of a policy that is stored and carries
\* no deletion marker.
LivePolicyReconcile ==
    /\ last.act = "policy"
    /\ last.fetched.exists
    /\ ~last.fetched.deleting

\* C11: a reconcile of a live policy that writes the status writes the
\* snapshot of that reconcile: matchedAgentCards is the number of cards it
\* matched and generatedResources the records it generated, also when it
\* returns failure.
C11_StatusIsSnapshot ==
    LivePolicyReconcile /\ StatusWrites # {} =>
      /\ last.status.matchedAgentCards = Len(last.matched)
      /\ last.status.generatedResources = last.generated

\* The calls of the last reconcile on the AuthPolicy or RateLimitPolicy of a
\* card.
TrafficCalls(c) ==
    {i \in DownstreamCalls :
        \/ ops[i].kind = "AuthPolicy" /\ ops[i].name = "ap-" \o c
        \/ ops[i].kind = "RateLimitPolicy" /\ ops[i].name = "rlp-" \o c}

\* C12: a matched card without an HTTPRoute is skipped in the first loop: no
\* call on its AuthPolicy or RateLimitPolicy, no error for the missing route,
\* and when no call failed the reconcile sets Ready=True and returns success.
C12_NoRouteIsSkipped ==
    FanOut =>
      /\ \A c \in Matched :
           RouteNameOf(c) = "" =>
             /\ TrafficCalls(c) = {}
             /\ \A e \in Errors : e[2] = c => e[1] \in {"listRoutes", "cm"}
      /\ FanOutFailures = {} =>
           /\ last.result = "ok"
           /\ last.status.ready = "True"

\* A policy with an ingress section has matched card c1, which has no
\* HTTPRoute yet, and has ended Ready=True.
C12_Witness ==
    /\ FanOut
    /\ "c1" \in Matched /\ RouteNameOf("c1") = ""
    /\ last.fetched.ingress.present
    /\ last.result = "ok"
    /\ LastPolicy.status.ready = "True"

\* C13: a reconcile makes a call on a downstream kind only when the section
\* that governs the kind is present on the record it fetched: ingress for
\* AuthPolicy, rateLimit for RateLimitPolicy, external for ConfigMap, the
\* protocol "mcp" for MCPServerRegistration.
C13_SectionGovernsKind ==
    IsReconcile =>
      \A i \in DownstreamCalls :
        /\ ops[i].kind = "AuthPolicy" => last.fetched.ingress.present
        /\ ops[i].kind = "RateLimitPolicy" => last.fetched.rateLimit.present
        /\ ops[i].kind = "ConfigMap" => last.fetched.external.present
        /\ ops[i].kind = "MCPServerRegistration" =>
             \E j \in 1..Len(last.fetched.protocols) :
                 last.fetched.protocols[j] = "mcp"

\* A policy with an external section only has found the HTTPRoute of card c1
\* and has written the ConfigMap and nothing else.
C13_Witness ==
    /\ FanOut
    /\ ~last.fetched.ingress.present /\ ~last.fetched.rateLimit.present
    /\ "c1" \in Matched /\ RouteNameOf("c1") # ""
    /\ Wrote("ConfigMap", "sidecar-config-c1")
    /\ TrafficCalls("c1") = {}

\* No stored card of the policy's namespace carries every label of its
\* selector.
ZeroMatch ==
    \A c \in CardNames :
      ~(/\ cards[c].exists
        /\ cards[c].namespace = LastPolicy.namespace
        /\ \A k \in DOMAIN LastPolicy.selector :
             /\ k \in DOMAIN cards[c].labels
             /\ cards[c].labels[k] = LastPolicy.selector[k])

\* C14: a policy reconcile that matches no card sets matchedAgentCards = 0,
\* an empty generatedResources and Ready=True, makes no call on a downstream
\* record, and returns success.
C14_ZeroMatch ==
    FanOut /\ ZeroMatch =>
      /\ last.status.matchedAgentCards = 0
      /\ last.status.generatedResources = <<>>
      /\ last.status.ready = "True"
      /\ last.result = "ok"
      /\ DownstreamCalls = {}
      /\ ops[Len(ops)].res = "ok" => LastPolicy.status = last.status

\* Policy p1 has been reconciled with no card matching its selector, after
\* an earlier reconcile had matched one.
C14_Witness ==
    /\ FanOut /\ ZeroMatch
    /\ last.key = "p1"
    /\ last.fetched.status.matchedAgentCards = 1
    /\ LastPolicy.status.matchedAgentCards = 0
    /\ LastPolicy.status.ready = "True"

\* The calls of the last reconcile, status writes aside, that failed.
FailedCalls == {i \in 1..Len(ops) \ StatusWrites : ops[i].res = "err"}

\* C19: a failed status write is dropped: a reconcile writes the status at
\* most once, its result is failure exactly when another call failed, and
\* after a failed status write the stored status is the one it fetched.
C19_StatusWriteDropped ==
    IsReconcile =>
      /\ Cardinality(StatusWrites) <= 1
      /\ last.result = "err" <=> FailedCalls # {}
      /\ \A i \in StatusWrites :
           ops[i].res = "err" => LastStored.status = last.fetched.status

\* A card reconcile has written the HTTPRoute, its status write has failed,
\* and it has returned success.
C19_Witness ==
    /\ last.act = "card"
    /\ Wrote("HTTPRoute", "agent-" \o last.key)
    /\ ops[Len(ops)] = Op("updateStatus", "AgentCard", last.key, "err")
    /\ last.result = "ok"

\* The calls of the last reconcile on the sidecar ConfigMap of a card: all
\* of them, the reads and the writes.
ConfigMapCalls(c) ==
    {i \in DownstreamCalls :
        ops[i].kind = "ConfigMap" /\ ops[i].name = "sidecar-config-" \o c}
ConfigMapGets(c) == {i \in ConfigMapCalls(c) : ops[i].verb = "get"}
ConfigMapWrites(c) == ConfigMapCalls(c) \cap DownstreamWrites

\* C15: the ConfigMap pass comes after every call of the first loop; with an
\* external section it applies the ConfigMap of every matched card exactly
\* once (one Get, and one Create or Update unless that Get failed), whatever
\* the first loop did for the card; without one, or with no matched card, it
\* makes no ConfigMap call.
C15_ConfigMapPass ==
    FanOut =>
      /\ \A i \in DownstreamCalls :
           ops[i].kind = "ConfigMap" =>
             /\ \E c \in Matched : i \in ConfigMapCalls(c)
             /\ \A j \in DownstreamCalls :
                  ops[j].kind # "ConfigMap" => j < i
      /\ \A c \in Matched :
           IF last.fetched.external.present
           THEN /\ Cardinality(ConfigMapGets(c)) = 1
                /\ Cardinality(ConfigMapWrites(c))
                     = IF \E i \in ConfigMapGets(c) : ops[i].res = "err"
                       THEN 0 ELSE 1
           ELSE ConfigMapCalls(c) = {}

\* The AuthPolicy of card c1 has failed, c2 has no HTTPRoute, and the pass
\* has written the ConfigMap of both after the calls of the first loop.
C15_Witness ==
    /\ FanOut
    /\ last.matched = <<"c1", "c2">>
    /\ last.errors = <<<<"auth", "c1">>>>
    /\ RouteNameOf("c2") = ""
    /\ Wrote("ConfigMap", "sidecar-config-c1")
    /\ Wrote("ConfigMap", "sidecar-config-c2")

\* C18: in a card reconcile the failure of the MCPServerRegistration apply
\* is swallowed only when the kind is not registered; any other failure of
\* its Create or Update, the NotFound of an Update included, sets Ready=False
\* and makes the reconcile return failure.
C18_OnlySchemaUnavailableSwallowed ==
    last.act = "card" =>
      \A i \in DownstreamCalls :
        ops[i].kind = "MCPServerRegistration" =>
          /\ (ops[i].res = "nomatch" /\ FailedCalls = {}) =>
               last.result = "ok"
          /\ (ops[i].verb # "get" /\ ops[i].res # "ok") =>
               /\ last.result = "err"
               /\ last.status.ready = "False"

-----------------------------------------------------------------------------
(* The selector matcher and the cross-record index (CallSpec). *)

Returned(fn) == call.fn = fn /\ call.out # <<>>

\* Every key of the selector is a key of the object, with an equal value.
EveryKeyPresentAndEqual(objectLabels, selectorLabels) ==
    \A key \in DOMAIN selectorLabels :
        /\ key \in DOMAIN objectLabels
        /\ objectLabels[key] = selectorLabels[key]

\* C16: labelsMatchSelector returns true if and only if every key of the
\* selector exists in the object's labels with an equal value; a selector key
\* that the object lacks is a non-match whatever the selector's value for it,
\* the empty string included.
C16_SelectorMatcher ==
    Returned("labelsMatchSelector")
        => call.out[1] = EveryKeyPresentAndEqual(call.in.objectLabels,
                                                 call.in.selectorLabels)

\* The policies of the cache that are in the namespace of the card of the
\* event and whose selector the selector matcher accepts for its labels.
SelectingPolicies ==
    {p \in PolicyNames :
        /\ policies[p].exists
        /\ policies[p].namespace = call.in.card.namespace
        /\ labelsMatchSelector(call.in.card.labels, policies[p].selector)}

\* The result of the index for a card of the same namespace and labels with
\* the spec content s.
ResultWithSpec(s) ==
    findPoliciesForAgentCard([call.in.card EXCEPT !.protocols = s.protocols,
                                             !.servicePort = s.servicePort],
                             policies, call.in.listFails)

-----------------------------------------------------------------------------
(* Optimistic versioning of the downstream records (ApplySpec). *)

\* The last write request was an Update based on a stale read: the record
\* was written between the Get of the apply call and its Update.
StaleUpdate ==
    /\ race.write.verb = "update"
    /\ race.write.read # race.write.stored

\* C20: an Update of a stored downstream record carries the version token
\* that the Get of the same apply call read; an Update based on a stale read
\* is rejected with a conflict and the stored value stays as it was.
C20_StaleUpdateRejected ==
    race.write.verb = "update"
        => /\ race.write.sent = race.write.read
           /\ StaleUpdate
                => /\ race.write.res = "conflict"
                   /\ Lookup(store, race.write.key) = race.write.before
                   /\ race.version[race.write.key] = race.write.stored

\* The reconcile of p1 has read a record, the reconcile of p2 has then
\* written it, and the Update of p1 has been answered.
C20_Witness ==
    /\ StaleUpdate
    /\ race.write.by = "p1"
    /\ race.write.before.exists
    /\ race.write.before.owners[1].name = "p2"
    /\ race.write.key[1] = "ConfigMap"

-----------------------------------------------------------------------------
(* The construction functions (CallSpec). *)

\* A construction function has been applied to both of its arguments.
BuiltTwice == call.fn \in Builders /\ Len(call.out) = 2

\* C23 (as stated): two synthesized records of a kind with the same owner
\* have the same name.
C23_NameByOwner ==
    BuiltTwice
        => (call.out[1].owners = call.out[2].owners
              => call.out[1].name = call.out[2].name)

\* C23 (amended): the name of a synthesized record is a function of its kind
\* and of the name of the AgentCard it is synthesized for, which is the
\* owner of an HTTPRoute and an MCPServerRegistration only: two records of a
\* kind have the same name exactly when their cards have the same name,
\* whatever the policy; and synthesis from the same arguments yields the same
\* name and the same payload.
C23_NameByCard ==
    BuiltTwice
        => /\ (call.in[1].card.name = call.in[2].card.name)
                <=> (call.out[1].name = call.out[2].name)
           /\ call.in[1] = call.in[2]
                => /\ call.out[1].name = call.out[2].name
                   /\ call.out[1].spec = call.out[2].spec
           /\ (call.fn \in CardBuilders
                 /\ call.out[1].owners = call.out[2].owners)
                => call.out[1].name = call.out[2].name

\* Two AuthPolicies of one card and of two policies: two owners, one name.
C23_Witness ==
    /\ BuiltTwice
    /\ call.fn = "BuildAuthPolicy"
    /\ call.in[1].card = call.in[2].card
    /\ call.out[1].owners # call.out[2].owners
    /\ call.out[1].name = call.out[2].name

NamePrefix(kind) ==
    CASE kind = "HTTPRoute" -> "agent-"
      [] kind = "AuthPolicy" -> "ap-"
      [] kind = "RateLimitPolicy" -> "rlp-"
      [] kind = "ConfigMap" -> "sidecar-config-"
      [] kind = "MCPServerRegistration" -> "mcp-"
      [] kind = "NetworkPolicy" -> "egress-"

\* C25: every synthesized record is named by the prefix of its kind followed
\* by the name of the AgentCard, and carries exactly the two labels
\* managed-by = agent-access-control and agent-card = the card name; two
\* records of a kind for cards of different names have different names.
C25_PrefixAndLabels ==
    call.fn \in Builders
        => /\ \A k \in 1..Len(call.out) :
                /\ call.out[k].name
                     = NamePrefix(call.out[k].kind) \o call.in[k].card.name
                /\ DOMAIN call.out[k].labels
                     = {"kagenti.com/managed-by", "kagenti.com/agent-card"}
                /\ call.out[k].labels["kagenti.com/managed-by"]
                     = "agent-access-control"
                /\ call.out[k].labels["kagenti.com/agent-card"]
                     = call.in[k].card.name
           /\ (BuiltTwice /\ call.in[1].card.name # call.in[2].card.name)
                => call.out[1].name # call.out[2].name

\* The MCPServerRegistrations of two cards of one namespace.
C25_Witness ==
    /\ BuiltTwice
    /\ call.fn = "BuildMCPServerRegistration"
    /\ call.in[1].card.name # call.in[2].card.name
    /\ call.in[1].card.namespace = call.in[2].card.namespace
    /\ call.out[1].name = "mcp-c1"
    /\ call.out[2].name = "mcp-c2"

\* The backend port of a built HTTPRoute.
BackendPort(route) == route.spec.rules[1].port

\* C26: the backend port of the HTTPRoute is the card's servicePort when that
\* is not zero, and 8080 when it is zero or absent (0 gives 8080, 9090 gives
\* 9090).
C26_BackendPort ==
    call.fn = "BuildHTTPRoute"
        => \A k \in 1..Len(call.out) :
             /\ Len(call.out[k].spec.rules) = 1
             /\ BackendPort(call.out[k])
                  = IF call.in[k].card.servicePort # 0
                    THEN call.in[k].card.servicePort ELSE 8080

\* The routes of a card without servicePort and of a card with 9090.
C26_Witness ==
    /\ BuiltTwice
    /\ call.fn = "BuildHTTPRoute"
    /\ call.in[1].card.servicePort = 0
    /\ BackendPort(call.out[1]) = 8080
    /\ call.in[2].card.servicePort = 9090
    /\ BackendPort(call.out[2]) = 9090

\* C27: the RateLimitPolicy holds exactly one rate, with window 1m; its limit
\* is 60 when the policy has no rateLimit section and the section's
\* requestsPerMinute otherwise (100 gives 100).
C27_OneRate ==
    call.fn = "BuildRateLimitPolicy"
        => \A k \in 1..Len(call.out) :
             /\ Len(call.out[k].spec.rates) = 1
             /\ call.out[k].spec.rates[1].window = "1m"
             /\ call.out[k].spec.rates[1].limit
                  = IF call.in[k].policy.rateLimit.present
                    THEN call.in[k].policy.rateLimit.requestsPerMinute
                    ELSE 60

\* The RateLimitPolicies of a policy without rateLimit section and of a
\* policy with requestsPerMinute 100.
C27_Witness ==
    /\ BuiltTwice
    /\ call.fn = "BuildRateLimitPolicy"
    /\ ~call.in[1].policy.rateLimit.present
    /\ call.out[1].spec.rates[1].limit = 60
    /\ call.in[2].policy.rateLimit.present
    /\ call.in[2].policy.rateLimit.requestsPerMinute = 100
    /\ call.out[2].spec.rates[1].limit = 100

\* The string has the separator at position i.
SeparatorAt(entry, i) == SubSeq(entry, i, i) = "/"

HasSeparator(entry) == \E i \in 1..Len(entry) : SeparatorAt(entry, i)

\* C28: resolveServiceAccount(entry, policyNamespace) returns
\* system:serviceaccount:{ns}:{name}; for an entry with the separator "/", ns
\* and name are the parts before and after its first separator; for an entry
\* without it, ns is the policy's namespace and name is the entry.
C28_ResolveServiceAccount ==
    Returned("resolveServiceAccount")
        => IF HasSeparator(call.in.name)
           THEN \E i \in 1..Len(call.in.name) :
                  /\ SeparatorAt(call.in.name, i)
                  /\ \A j \in 1..(i - 1) : ~SeparatorAt(call.in.name, j)
                  /\ call.out[1]
                       = "system:serviceaccount:"
                           \o SubSeq(call.in.name, 1, i - 1) \o ":"
                           \o SubSeq(call.in.name, i + 1, Len(call.in.name))
           ELSE call.out[1]
                  = "system:serviceaccount:" \o call.in.policyNamespace
                      \o ":" \o call.in.name

\* An entry with two separators has been resolved: the name keeps the second.
C28_Witness ==
    /\ Returned("resolveServiceAccount")
    /\ call.in.name = "a/b/c"
    /\ call.out[1] = "system:serviceaccount:a:b/c"

\* The entries of ingress.allowedAgents of the policy of the arguments a.
AllowedAgents(a) ==
    IF a.policy.ingress.present THEN a.policy.ingress.allowedAgents ELSE <<>>

\* C29: the authorization section of the AuthPolicy holds one equality
\* predicate per entry of ingress.allowedAgents, in the order of the entries,
\* each with the resolved account identity as its value; for an empty list
\* the section is there and holds no predicate.
C29_OnePredicatePerAgent ==
    call.fn = "BuildAuthPolicy"
        => \A k \in 1..Len(call.out) :
             /\ "patterns" \in DOMAIN call.out[k].spec
             /\ Len(call.out[k].spec.patterns)
                  = Len(AllowedAgents(call.in[k]))
             /\ \A i \in 1..Len(AllowedAgents(call.in[k])) :
                  /\ call.out[k].spec.patterns[i].selector
                       = "auth.identity.sub"
                  /\ call.out[k].spec.patterns[i].operator = "eq"
                  /\ call.out[k].spec.patterns[i].value
                       = resolveServiceAccount(
                             AllowedAgents(call.in[k])[i],
                             call.in[k].policy.namespace)

\* The AuthPolicies of a policy whose ingress section allows no agent and of
\* a policy that allows two.
C29_Witness ==
    /\ BuiltTwice
    /\ call.fn = "BuildAuthPolicy"
    /\ call.in[1].policy.ingress.present
    /\ call.in[1].policy.ingress.allowedAgents = <<>>
    /\ call.out[1].spec.patterns = <<>>
    /\ Len(call.in[2].policy.ingress.allowedAgents) = 2
    /\ call.out[2].spec.patterns[1].value
         = "system:serviceaccount:team-a:planner"

-----------------------------------------------------------------------------
(* The status of a policy and the cascade, in the long run (FairSpec). *)

\* The part of a policy status that reports the downstream records.
Report(status) ==
    <<status.matchedAgentCards, status.generatedResources, status.ready>>

\* The status a reconcile of policy p without a failing call would write in
\* this state.
Snapshot(p) == PolicyReconcileRun(p, {}).policies[p].status

LivePolicy(p) == policies[p].exists /\ ~policies[p].deleting

\* The stored status of p is not the snapshot.
Stale(p) ==
    /\ LivePolicy(p)
    /\ Report(policies[p].status) # Report(Snapshot(p))

\* The status write of the last reconcile, of policy p, was rejected.
StatusWriteRejected(p) ==
    /\ last.act = "policy" /\ last.key = p
    /\ \E i \in 1..Len(ops) :
         ops[i].verb = "updateStatus" /\ ops[i].res = "err"

GeneratedFor(c) ==
    {k \in DOMAIN store :
        /\ k[1] \in {"HTTPRoute", "AuthPolicy", "RateLimitPolicy", "ConfigMap"}
        /\ MapGet(store[k].labels, labelAgentCard) = c}

\* C22: once an AgentCard is gone, its HTTPRoute, AuthPolicy, RateLimitPolicy
\* and sidecar ConfigMap are all eventually gone, by the cascade of the owner
\* references, whether or not the AgentPolicy that selected it is deleted.
C22_CardCascade ==
    \A c \in CardNames :
        (~cards[c].exists /\ GeneratedFor(c) # {}) ~> (GeneratedFor(c) = {})

-----------------------------------------------------------------------------
(* The status of a card, and what the two reconcilers write. *)

\* The Create and Update calls of the last reconcile on records of a kind.
WritesOf(kind) == {i \in DownstreamWrites : ops[i].kind = kind}

\* C31: a card reconcile whose HTTPRoute write succeeds (and whose
\* MCPServerRegistration write succeeds, when the card speaks mcp) returns
\* success holding generatedHTTPRoute = agent-<card> and Ready=True, and stores
\* that status when its status write is accepted; after a failed HTTPRoute
\* Create or Update it holds Ready=False, returns failure, makes no call on an
\* MCPServerRegistration and leaves generatedHTTPRoute as it fetched it.
C31_CardStatus ==
    last.act = "card" =>
      /\ ( /\ Wrote("HTTPRoute", "agent-" \o last.key)
           /\ containsProtocol(last.fetched.protocols, "mcp")
                 => Wrote("MCPServerRegistration", "mcp-" \o last.key) )
          => /\ last.result = "ok"
             /\ last.status.generatedHTTPRoute = "agent-" \o last.key
             /\ last.status.ready = "True"
             /\ \A i \in StatusWrites :
                  ops[i].res = "ok" => cards[last.key].status = last.status
      /\ \A i \in WritesOf("HTTPRoute") :
           ops[i].res # "ok"
             => /\ last.result = "err"
                /\ last.status.ready = "False"
                /\ \A j \in 1..Len(ops) : ops[j].kind # "MCPServerRegistration"
                /\ last.status.generatedHTTPRoute
                     = last.fetched.status.generatedHTTPRoute

\* A card that speaks mcp and whose status names its route is reconciled and
\* the Update of its HTTPRoute fails.
C31_Witness ==
    /\ last.act = "card"
    /\ containsProtocol(last.fetched.protocols, "mcp")
    /\ last.fetched.status.generatedHTTPRoute = "agent-" \o last.key
    /\ \E i \in WritesOf("HTTPRoute") :
         ops[i].verb = "update" /\ ops[i].res = "err"

-----------------------------------------------------------------------------
(* Two policies that select the same card. *)

PolicyOwnedKinds == {"AuthPolicy", "RateLimitPolicy", "ConfigMap"}

\* The policy-owned records that the reconcile with calls o has written.
WrittenBy(o) ==
    {<<o[i].kind, o[i].name>> :
        i \in {j \in 1..Len(o) : /\ o[j].kind \in PolicyOwnedKinds
                                  /\ o[j].verb \in {"create", "update"}
                                  /\ o[j].res = "ok"}}

NoFailedCall(o) ==
    \A i \in 1..Len(o) : o[i].res \in {"ok", "nomatch"}
                            \/ (o[i].verb = "get" /\ o[i].res = "notfound")

Listed(status, k) ==
    \E i \in 1..Len(status.generatedResources) :
        status.generatedResources[i] = [kind |-> k[1], name |-> k[2]]

\* What the policy builds for the card of record k.
DesiredBy(policy, k, card) ==
    CASE k[1] = "AuthPolicy" ->
            BuildAuthPolicy(policy, card, "agent-" \o card.name)
      [] k[1] = "RateLimitPolicy" ->
            BuildRateLimitPolicy(policy, card, "agent-" \o card.name)
      [] k[1] = "ConfigMap" -> BuildSidecarConfigMap(policy, card)

\* Two policy reconciles of different keys, one directly after the other,
\* none of whose calls fails.
OneAfterTheOther ==
    /\ last.act = "policy" /\ last'.act = "policy"
    /\ last.key # last'.key
    /\ NoFailedCall(ops) /\ NoFailedCall(ops')

\* C32: when the reconciles of two policies run one after the other and both
\* write the same AuthPolicy, RateLimitPolicy or ConfigMap, the stored record
\* is the one the later policy builds, with the later policy as its only
\* owner; both reconciles return success and both stored statuses list it.
C32_LastWriterWins ==
    [][OneAfterTheOther =>
         \A k \in WrittenBy(ops) \cap WrittenBy(ops') :
           /\ store'[k] = DesiredBy(policies'[last'.key], k,
                             cards'[MapGet(store'[k].labels, labelAgentCard)])
           /\ store'[k].owners
                = <<OwnerRef("AgentPolicy", policies'[last'.key])>>
           /\ last.result = "ok" /\ last'.result = "ok"
           /\ Listed(policies'[last.key].status, k)
           /\ Listed(policies'[last'.key].status, k)]_vars

\* Policy p2 has just overwritten the ConfigMap of a card that policy p1
\* wrote with other data; p1 still lists it.
C32_Witness ==
    /\ last.act = "policy" /\ last.key = "p2"
    /\ NoFailedCall(ops)
    /\ \E k \in WrittenBy(ops) :
         /\ k[1] = "ConfigMap"
         /\ policies["p1"].exists
         /\ Listed(policies["p1"].status, k)
         /\ Listed(policies["p2"].status, k)
         /\ store[k].owners = <<OwnerRef("AgentPolicy", policies["p2"])>>
         /\ store[k].spec
              # DesiredBy(policies["p1"], k,
                    cards[MapGet(store[k].labels, labelAgentCard)]).spec

-----------------------------------------------------------------------------
(* A card whose HTTPRoute is created after a policy has passed over it. *)

\* Policy p asks for an AuthPolicy of card c.
StillSelected(p, c) ==
    /\ LivePolicy(p) /\ policies[p].ingress.present
    /\ cards[c].exists /\ ~cards[c].deleting
    /\ labelsMatchSelector(cards[c].labels, policies[p].selector)

\* Policy p has passed over card c: its stored status counts a matched card
\* and names no AuthPolicy of c, and the HTTPRoute of c is stored by now.
PassedOver(p, c) ==
    /\ StillSelected(p, c)
    /\ policies[p].status.matchedAgentCards > 0
    /\ ~Listed(policies[p].status, <<"AuthPolicy", "ap-" \o c>>)
    /\ <<"AuthPolicy", "ap-" \o c>> \notin DOMAIN store
    /\ <<"HTTPRoute", "agent-" \o c>> \in DOMAIN store

-----------------------------------------------------------------------------
(* Records that are no longer asked for. *)

\* The section of a policy that governs a kind.
SectionOf(policy, kind) ==
    CASE kind = "AuthPolicy" -> policy.ingress
      [] kind = "RateLimitPolicy" -> policy.rateLimit
      [] kind = "ConfigMap" -> policy.external

\* The policy asks for a record of the kind for the card: it lists the card
\* and has the section of the kind.
Asks(policy, card, kind) ==
    /\ card.exists
    /\ card.namespace = policy.namespace
    /\ MatchingLabels(card.labels, policy.selector)
    /\ SectionOf(policy, kind).present

CardOf(obj) == MapGet(obj.labels, labelAgentCard)

\* The record was removed by another client during the reconcile with calls o.
RemovedDuring(o, k) ==
    \E i \in 1..Len(o) :
        o[i] = Op("update", k[1], k[2], "notfound")

\* C34: a stored downstream record leaves the store only when none of its
\* owners is stored (or another client removes it); a policy reconcile leaves
\* a record of its policy that the policy no longer asks for (section
\* removed, card no longer selected) stored and unchanged and, when it has
\* listed the cards, does not name it in generatedResources; a card
\* reconcile leaves the MCPServerRegistration of a card that no longer
\* speaks mcp stored and unchanged.
C34_NotWithdrawn ==
    [][\A k \in DOMAIN store :
         /\ k \notin DOMAIN store'
               => \/ \A i \in 1..Len(store[k].owners) :
                        ~OwnerExists(store[k].owners[i])
                  \/ RemovedDuring(ops', k)
         /\ ( /\ last'.act = "policy"
              /\ k[1] \in PolicyOwnedKinds
              /\ store[k].owners[1].name = last'.key
              /\ policies'[last'.key].exists
              /\ ~Asks(policies'[last'.key], cards'[CardOf(store[k])], k[1]) )
             => /\ k \in DOMAIN store' /\ store'[k] = store[k]
                /\ last'.fanout => ~Listed(last'.status, k)
         /\ ( /\ last'.act = "card"
              /\ k = <<"MCPServerRegistration", "mcp-" \o last'.key>>
              /\ cards'[last'.key].exists
              /\ ~containsProtocol(cards'[last'.key].protocols, "mcp") )
             => k \in DOMAIN store' /\ store'[k] = store[k]]_vars

\* A policy whose ingress section has been removed is reconciled: the
\* AuthPolicy it generated earlier is stored, its status does not name it.
C34_Witness ==
    /\ last.act = "policy" /\ last.fanout /\ last.result = "ok"
    /\ LastPolicy.exists /\ ~LastPolicy.ingress.present
    /\ \E c \in CardNames :
         /\ <<"AuthPolicy", "ap-" \o c>> \in DOMAIN store
         /\ store[<<"AuthPolicy", "ap-" \o c>>].owners[1].name = last.key
         /\ ~Listed(LastPolicy.status, <<"AuthPolicy", "ap-" \o c>>)
         /\ LastPolicy.status.matchedAgentCards > 0

-----------------------------------------------------------------------------
(* What each reconciler writes. *)

CardOwnedKinds == {"HTTPRoute", "MCPServerRegistration"}
WriteVerbs == {"create", "update", "delete", "updateStatus"}

\* The records of the kinds, as stored.
StoredOf(s, kinds) == [k \in {q \in DOMAIN s : q[1] \in kinds} |-> s[k]]

\* C35: a policy reconcile writes its own AgentPolicy and records of the
\* kinds AuthPolicy, RateLimitPolicy and ConfigMap only; it reads AgentCards
\* and HTTPRoutes and leaves them and the MCPServerRegistrations as they are.
\* A card reconcile writes its own AgentCard and records of the kinds
\* HTTPRoute and MCPServerRegistration only, and makes no call on an
\* AgentPolicy, AuthPolicy, RateLimitPolicy or ConfigMap.
C35_DisjointWrites ==
    [][/\ last'.act = "policy" =>
           /\ \A i \in 1..Len(ops') :
                /\ ops'[i].verb \in WriteVerbs
                      => \/ ops'[i].kind \in PolicyOwnedKinds
                         \/ /\ ops'[i].kind = "AgentPolicy"
                            /\ ops'[i].name = last'.key
                /\ ops'[i].kind \in {"AgentCard", "HTTPRoute"}
                      => ops'[i].verb = "list"
                /\ ops'[i].kind # "MCPServerRegistration"
           /\ cards' = cards
           /\ StoredOf(store', CardOwnedKinds)
                = StoredOf(store, CardOwnedKinds)
           /\ \A p \in PolicyNames \ {last'.key} :
                policies'[p] = policies[p]
       /\ last'.act = "card" =>
           /\ \A i \in 1..Len(ops') :
                /\ ops'[i].kind \in CardOwnedKinds
                     \/ (ops'[i].kind = "AgentCard"
                           /\ ops'[i].name = last'.key)
           /\ policies' = policies
           /\ StoredOf(store', PolicyOwnedKinds)
                = StoredOf(store, PolicyOwnedKinds)
           /\ \A c \in CardNames \ {last'.key} : cards'[c] = cards[c]]_vars

\* A policy reconcile has read the HTTPRoute of a card that a card reconcile
\* stored, and has written the AuthPolicy and the ConfigMap of the card.
C35_Witness ==
    /\ last.act = "policy"
    /\ \E c \in CardNames :
         /\ <<"HTTPRoute", "agent-" \o c>> \in DOMAIN store
         /\ Wrote("AuthPolicy", "ap-" \o c)
         /\ Wrote("ConfigMap", "sidecar-config-" \o c)
         /\ \E i \in 1..Len(ops) : ops[i] = Op("list", "HTTPRoute", c, "ok")

-----------------------------------------------------------------------------
(* A failure of the AuthPolicy of a card. *)

\* The calls of the last reconcile on the record, and their results.
CallsOn(kind, name) ==
    {i \in 1..Len(ops) : ops[i].kind = kind /\ ops[i].name = name}
ResultsOn(kind, name) == {ops[i].res : i \in CallsOn(kind, name)}

\* C36: in a policy reconcile, after an error of the AuthPolicy write of a
\* card no call is made on the card's RateLimitPolicy; after the AuthPolicy
\* kind was found unregistered the RateLimitPolicy is still attempted when
\* the policy has a rateLimit section; in both cases the card's ConfigMap is
\* attempted when the policy has an external section.
C36_AuthFailure ==
    FanOut =>
      \A c \in Matched :
        /\ "err" \in ResultsOn("AuthPolicy", "ap-" \o c)
              => CallsOn("RateLimitPolicy", "rlp-" \o c) = {}
        /\ ( /\ "nomatch" \in ResultsOn("AuthPolicy", "ap-" \o c)
             /\ last.fetched.rateLimit.present )
              => CallsOn("RateLimitPolicy", "rlp-" \o c) # {}
        /\ ( /\ ResultsOn("AuthPolicy", "ap-" \o c) \cap {"err", "nomatch"}
                  # {}
             /\ last.fetched.external.present )
              => CallsOn("ConfigMap", "sidecar-config-" \o c) # {}

\* The AuthPolicy write of a card has failed in a reconcile of a policy with
\* rateLimit and external sections; the card's ConfigMap was written.
C36_Witness ==
    /\ FanOut
    /\ last.fetched.rateLimit.present /\ last.fetched.external.present
    /\ \E c \in Matched :
         /\ "err" \in ResultsOn("AuthPolicy", "ap-" \o c)
         /\ Wrote("ConfigMap", "sidecar-config-" \o c)

-----------------------------------------------------------------------------
(* The cards a reconcile lists and the policies the index requests. *)

\* The policies of the cache whose reconcile lists the card: the List call
\* of the reconcile asks for the cards of the policy's namespace that carry
\* the policy's matchLabels.
ListingPolicies(card) ==
    {p \in PolicyNames :
        /\ policies[p].exists
        /\ card.namespace = policies[p].namespace
        /\ MatchingLabels(card.labels, policies[p].selector)}

\* C37: for every card and every cached policy, the index requests the
\* policy for the card exactly when the reconcile of the policy lists the
\* card.
C37_IndexAgreesWithList ==
    (Returned("findPoliciesForAgentCard") /\ ~call.in.listFails)
        => call.out[1] = ListingPolicies(call.in.card)

-----------------------------------------------------------------------------
(* What the written status of a policy counts. *)

\* The cards the List call of the last policy reconcile returned: those of
\* the policy's namespace that carry its matchLabels, none when it failed.
ListedCards ==
    IF \E i \in 1..Len(ops) : ops[i] = Op("list", "AgentCard", "", "ok")
    THEN {c \in CardNames :
            /\ cards[c].exists
            /\ cards[c].namespace = last.fetched.namespace
            /\ MatchingLabels(cards[c].labels, last.fetched.selector)}
    ELSE {}

\* The downstream records the last reconcile created or updated.
SucceededWrites ==
    {[kind |-> ops[i].kind, name |-> ops[i].name] :
        i \in {j \in DownstreamWrites : ops[j].res = "ok"}}

StatusWritten ==
    /\ last.act = "policy"
    /\ \E i \in StatusWrites : ops[i].res = "ok"

\* The status counts the listed cards and names each written record once.
CountsThePass(status) ==
    /\ status.matchedAgentCards = Cardinality(ListedCards)
    /\ {status.generatedResources[i] :
           i \in 1..Len(status.generatedResources)} = SucceededWrites
    /\ Len(status.generatedResources) = Cardinality(SucceededWrites)

-----------------------------------------------------------------------------
(* The two defaults (CallSpec). *)

\* The limit of a built RateLimitPolicy.
Limit(rlp) == rlp.spec.rates[1].limit

\* C39: the limit of the RateLimitPolicy is the default of 60 only by way of
\* an absent rateLimit section; with the section present it is
\* requestsPerMinute as given, 0 included.  The backend port of the
\* HTTPRoute, by contrast, is 8080 for a servicePort of 0.
C39_ZeroLimitKept ==
    /\ call.fn = "BuildRateLimitPolicy"
         => \A k \in 1..Len(call.out) :
              /\ call.in[k].policy.rateLimit.present
                    => Limit(call.out[k])
                         = call.in[k].policy.rateLimit.requestsPerMinute
              /\ ~call.in[k].policy.rateLimit.present
                    => Limit(call.out[k]) = DefaultRequestsPerMinute
              /\ call.in[k].policy.rateLimit.requestsPerMinute = 0
                    => (Limit(call.out[k]) = 0
                          <=> call.in[k].policy.rateLimit.present)
    /\ call.fn = "BuildHTTPRoute"
         => \A k \in 1..Len(call.out) :
              call.in[k].card.servicePort = 0
                => BackendPort(call.out[k]) = DefaultServicePort

\* The RateLimitPolicy of a policy whose rateLimit section gives 0 requests
\* per minute has the limit 0.
C39_Witness ==
    /\ call.fn = "BuildRateLimitPolicy"
    /\ \E k \in 1..Len(call.out) :
         /\ call.in[k].policy.rateLimit.present
         /\ call.in[k].policy.rateLimit.requestsPerMinute = 0
         /\ Limit(call.out[k]) = 0

====
